---- MODULE Spec2Model ----
(***************************************************************************)
(* Model of the cardinality / pseudo-Boolean extension solver (ba_solver)  *)
(* of src/src/sat/ba_solver.cpp: watched-literal propagation for card and  *)
(* pb constraints, constraint construction, root substitution and          *)
(* recompilation, subsumption, and the cutting-planes lemma construction.  *)
(*                                                                         *)
(* Literals are non-zero integers: v is the positive literal of variable   *)
(* v, -v its negation, 0 is null_literal.  All array positions are 0-based *)
(* as in the source; At(s, i) reads position i of the sequence s.          *)
(***************************************************************************)
EXTENDS Integers, Sequences, FiniteSets, TLC

VARIABLES
    val,              \* s().value(v): "T", "F" or "U" per variable
    lvl,              \* s().lvl(v): assignment level per variable
    m_justification,  \* s().m_justification[v]: 0 = none, i > 0 = ext constraint i
    m_trail,          \* s().m_trail: assigned (true) literals in order
    m_qhead,          \* number of trail literals already propagated
    m_scope_lvl,      \* current decision level
    m_inconsistent,   \* s().inconsistent()
    m_conflict,       \* s().m_conflict: index of the conflicting constraint
    m_not_l,          \* s().m_not_l
    m_constraints,    \* all constraints ever allocated, by index (1-based id)
    m_learned,        \* m_learned: the indices of the learned constraints, in order
    m_watches,        \* get_wlist(l): sequence of constraint indices per literal
    m_clauses,        \* clauses handed to s().mk_clause
    m_constraint_to_reinit,      \* learned constraints waiting for their watches
    m_constraint_to_reinit_lim,  \* size of the reinit queue at each push
    m_weights,        \* m_weights: scratch weight per literal, kept between calls
    m_num_propagations_since_pop,  \* 0, or 1 for "at least one" (it is only compared with 0)
    m_roots,          \* m_roots: substitution literal per literal
    m_coeffs,         \* resolver: signed coefficient per variable
    m_active_vars,    \* resolver: variables of the current inequality
    m_bound,          \* resolver: bound of the current inequality
    m_overflow,       \* resolver: overflow latch
    m_mark,           \* s().is_marked(v): the set of marked variables
    m_num_marks,      \* resolver: marked variables still to resolve
    debug_conflict,   \* the static _debug_conflict
    s_m_lemma,        \* s().m_lemma: the lemma handed to the core
    int_max,          \* INT_MAX of the build
    m_lemma,          \* resolver: the asserting lemma
    m_conflict_lvl,   \* resolver: conflict level
    m_num_cut,        \* m_stats.m_num_cut
    pc,               \* position of the modelled call ("engine", "ready", "done")
    ret               \* result of the last modelled call

vars == <<val, lvl, m_justification, m_trail, m_qhead, m_scope_lvl, m_inconsistent,
          m_conflict, m_not_l, m_constraints, m_learned, m_watches, m_clauses,
          m_constraint_to_reinit, m_constraint_to_reinit_lim, m_weights,
          m_num_propagations_since_pop, m_roots,
          m_coeffs, m_active_vars, m_bound, m_overflow, m_mark, m_num_marks,
          debug_conflict, s_m_lemma, int_max, m_lemma, m_conflict_lvl,
          m_num_cut, pc, ret>>

solverVars == <<val, lvl, m_justification, m_trail, m_qhead, m_scope_lvl, m_inconsistent,
                m_conflict, m_not_l, m_constraints, m_learned, m_watches, m_clauses,
                m_constraint_to_reinit, m_constraint_to_reinit_lim, m_weights,
                m_num_propagations_since_pop>>

resolverVars == <<m_coeffs, m_active_vars, m_bound, m_overflow, m_mark, m_num_marks,
          debug_conflict, s_m_lemma, int_max, m_lemma, m_conflict_lvl,
                  m_num_cut>>

----------------------------------------------------------------------------
(* Bounds of the model *)

NumVars == 3
CardVars == 4
MaxLevel == 2
MaxCoeff == 2

null_literal == 0
\* <climits> on the platforms the solver is built for
INT_MAX == 2147483647

----------------------------------------------------------------------------
(* Literals and sequences *)

Neg(l) == 0 - l
Var(l) == IF l < 0 THEN 0 - l ELSE l
Sign(l) == l < 0
Abs(x) == IF x < 0 THEN 0 - x ELSE x
Min(a, b) == IF a < b THEN a ELSE b
Max(a, b) == IF a < b THEN b ELSE a

\* F applied to the value of e, with e evaluated once
Bind(e, F(_)) == CHOOSE r \in {F(v) : v \in {e}} : TRUE

At(s, i) == s[i + 1]
\* a read at position i of a literal array of the constraint: past the end of
\* the allocation it yields whatever the memory holds (ub)
AtUB(s, i, ub) == IF i + 1 <= Len(s) THEN s[i + 1] ELSE ub
Put(s, i, x) == [s EXCEPT ![i + 1] = x]
Swap(s, i, j) == [s EXCEPT ![i + 1] = s[j + 1], ![j + 1] = s[i + 1]]

RECURSIVE SumSeq(_)
SumSeq(s) == IF s = <<>> THEN 0 ELSE Head(s) + SumSeq(Tail(s))

RECURSIVE EraseFirst(_, _)
EraseFirst(s, x) ==
    IF s = <<>> THEN <<>>
    ELSE IF Head(s) = x THEN Tail(s)
    ELSE <<Head(s)>> \o EraseFirst(Tail(s), x)

Contains(s, x) == \E i \in 1..Len(s) : s[i] = x

----------------------------------------------------------------------------
(* The solver state as one record, so that the routines compose *)

St == [val |-> val, lvl |-> lvl, just |-> m_justification, trail |-> m_trail,
       qhead |-> m_qhead, scope |-> m_scope_lvl, inc |-> m_inconsistent,
       confl |-> m_conflict, not_l |-> m_not_l, cs |-> m_constraints,
       learned |-> m_learned,
       wl |-> m_watches, clauses |-> m_clauses,
       reinit |-> m_constraint_to_reinit, reinit_lim |-> m_constraint_to_reinit_lim,
       weights |-> m_weights, nprops |-> m_num_propagations_since_pop,
       ub |-> null_literal, ub_read |-> FALSE]

\* the state in which a read past the end of a literal array yields u
StUB(u) == [St EXCEPT !.ub = u]

\* the outcomes of a routine F that may read past the end of an array: when
\* the read happens (ub_read), one outcome per value the memory can hold
Outcomes(F(_)) ==
    Bind(F(null_literal), LAMBDA R :
        IF R.ub_read THEN {F(u) : u \in DOMAIN R.wl} ELSE {R})

Install(S) ==
    /\ val' = S.val
    /\ lvl' = S.lvl
    /\ m_justification' = S.just
    /\ m_trail' = S.trail
    /\ m_qhead' = S.qhead
    /\ m_scope_lvl' = S.scope
    /\ m_inconsistent' = S.inc
    /\ m_conflict' = S.confl
    /\ m_not_l' = S.not_l
    /\ m_constraints' = S.cs
    /\ m_learned' = S.learned
    /\ m_watches' = S.wl
    /\ m_clauses' = S.clauses
    /\ m_constraint_to_reinit' = S.reinit
    /\ m_constraint_to_reinit_lim' = S.reinit_lim
    /\ m_weights' = S.weights
    /\ m_num_propagations_since_pop' = S.nprops

Install0(S) ==
    /\ val = S.val
    /\ lvl = S.lvl
    /\ m_justification = S.just
    /\ m_trail = S.trail
    /\ m_qhead = S.qhead
    /\ m_scope_lvl = S.scope
    /\ m_inconsistent = S.inc
    /\ m_conflict = S.confl
    /\ m_not_l = S.not_l
    /\ m_constraints = S.cs
    /\ m_learned = S.learned
    /\ m_watches = S.wl
    /\ m_clauses = S.clauses
    /\ m_constraint_to_reinit = S.reinit
    /\ m_constraint_to_reinit_lim = S.reinit_lim
    /\ m_weights = S.weights
    /\ m_num_propagations_since_pop = S.nprops

\* the solver after construction, with n variables
LitsOf(n) == {l \in (0 - n)..n : l # 0}
EmptySolver(n) ==
    [val |-> [v \in 1..n |-> "U"], lvl |-> [v \in 1..n |-> 0],
     just |-> [v \in 1..n |-> 0], trail |-> <<>>, qhead |-> 0, scope |-> 0,
     inc |-> FALSE, confl |-> 0, not_l |-> null_literal, cs |-> <<>>, learned |-> <<>>,
     wl |-> [l \in LitsOf(n) |-> <<>>], clauses |-> {},
     reinit |-> <<>>, reinit_lim |-> <<>>, weights |-> [l \in LitsOf(n) |-> 0], nprops |-> 0,
     ub |-> null_literal, ub_read |-> FALSE]

NotVal(b) == IF b = "T" THEN "F" ELSE IF b = "F" THEN "T" ELSE "U"
value(S, l) == IF l > 0 THEN S.val[l] ELSE NotVal(S.val[0 - l])
level(S, l) == S.lvl[Var(l)]

\* s().assign(lit, js): put lit on the trail at the current level
core_assign(S, lit, js) ==
    [S EXCEPT !.val[Var(lit)] = IF lit > 0 THEN "T" ELSE "F",
              !.lvl[Var(lit)] = S.scope,
              !.just[Var(lit)] = js,
              !.trail = Append(S.trail, lit)]

\* s().set_conflict(js, not_l): the first conflict is kept
core_set_conflict(S, js, nl) ==
    IF S.inc THEN S
    ELSE [S EXCEPT !.inc = TRUE, !.confl = js, !.not_l = nl]

\* s().assign(lit, justification()) as used at base level by the simplifier:
\* already true is a no-op, false is a conflict
core_assign_unit(S, lit) ==
    IF value(S, lit) = "T" THEN S
    ELSE IF value(S, lit) = "F" THEN core_set_conflict(S, 0, null_literal)
    ELSE core_assign(S, lit, 0)

core_mk_clause(S, lits) ==
    [S EXCEPT !.clauses = S.clauses \cup {{lits[i] : i \in 1..Len(lits)}}]

----------------------------------------------------------------------------
(* Constraints *)

mk_card(lit, lits, k, learned) ==
    [tag |-> "card", lit |-> lit, lits |-> lits, coeffs |-> [i \in 1..Len(lits) |-> 1],
     k |-> k, size |-> Len(lits), slack |-> 0, num_watch |-> 0,
     removed |-> FALSE, learned |-> learned, glue |-> 0, psm |-> 0, freed |-> FALSE]

\* a pb::pb without update_max_sum: the coefficients are stored as given
mk_pb_unclipped(lit, coeffs, lits, k, learned) ==
    [tag |-> "pb", lit |-> lit, lits |-> lits, coeffs |-> coeffs,
     k |-> k, size |-> Len(lits), slack |-> 0, num_watch |-> 0,
     removed |-> FALSE, learned |-> learned, glue |-> 0, psm |-> 0, freed |-> FALSE]

\* pb::pb with update_max_sum: coefficients are clipped to k
mk_pb(lit, coeffs, lits, k, learned) ==
    [tag |-> "pb", lit |-> lit, lits |-> lits,
     coeffs |-> [i \in 1..Len(lits) |-> Min(k, coeffs[i])],
     k |-> k, size |-> Len(lits), slack |-> 0, num_watch |-> 0,
     removed |-> FALSE, learned |-> learned, glue |-> 0, psm |-> 0, freed |-> FALSE]

\* xor::xor
mk_xor(lit, lits, learned) ==
    [tag |-> "xor", lit |-> lit, lits |-> lits, coeffs |-> [i \in 1..Len(lits) |-> 1],
     k |-> 0, size |-> Len(lits), slack |-> 0, num_watch |-> 0,
     removed |-> FALSE, learned |-> learned, glue |-> 0, psm |-> 0, freed |-> FALSE]

cswap(c, i, j) == [c EXCEPT !.lits = Swap(c.lits, i, j), !.coeffs = Swap(c.coeffs, i, j)]

\* set_k: a card stores the new bound; a pb runs update_max_sum after it, which
\* clips the first size coefficients to the new k
set_k(c, k) ==
    IF c.tag = "pb"
    THEN [c EXCEPT !.k = k,
                   !.coeffs = [i \in 1..Len(c.coeffs) |->
                                  IF i <= c.size THEN Min(k, c.coeffs[i]) ELSE c.coeffs[i]]]
    ELSE [c EXCEPT !.k = k]

\* c.literals(): the first size literals
literals(c) == SubSeq(c.lits, 1, c.size)

\* a card::negate whose threshold is one short
card_negate_one_short(c) ==
    [c EXCEPT !.lit = Neg(c.lit),
              !.lits = [i \in 1..Len(c.lits) |-> IF i <= c.size THEN Neg(c.lits[i]) ELSE c.lits[i]],
              !.k = c.size - c.k]

\* card::negate
card_negate(c) ==
    [c EXCEPT !.lit = Neg(c.lit),
              !.lits = [i \in 1..Len(c.lits) |-> IF i <= c.size THEN Neg(c.lits[i]) ELSE c.lits[i]],
              !.k = c.size - c.k + 1]

\* pb::negate
pb_negate(p) ==
    [p EXCEPT !.lit = Neg(p.lit),
              !.lits = [i \in 1..Len(p.lits) |-> IF i <= p.size THEN Neg(p.lits[i]) ELSE p.lits[i]],
              !.k = SumSeq(SubSeq(p.coeffs, 1, p.size)) - p.k + 1]

\* a negate that makes the reifier negative instead of flipping it
negate_reifier_made_negative(c) ==
    [(IF c.tag = "card" THEN card_negate(c) ELSE pb_negate(c)) EXCEPT !.lit = 0 - Var(c.lit)]

\* constraint::negate
negate(c) == IF c.tag = "card" THEN card_negate(c) ELSE pb_negate(c)

\* pb_base::well_formed
well_formed(c) ==
    /\ \A i \in 1..c.size : c.coeffs[i] <= c.k
    /\ \A i, j \in 1..c.size : i # j => Var(c.lits[i]) # Var(c.lits[j])
    /\ c.lit # null_literal => \A i \in 1..c.size : Var(c.lits[i]) # Var(c.lit)

----------------------------------------------------------------------------
(* Watch lists *)

\* a registration on the list of the literal itself instead of its negation
watch_literal_same_polarity(S, lit, ci) == [S EXCEPT !.wl[lit] = Append(S.wl[lit], ci)]

watch_literal(S, lit, ci) == [S EXCEPT !.wl[Neg(lit)] = Append(S.wl[Neg(lit)], ci)]
unwatch_literal(S, lit, ci) == [S EXCEPT !.wl[Neg(lit)] = EraseFirst(S.wl[Neg(lit)], ci)]
is_watched(S, lit, ci) == Contains(S.wl[Neg(lit)], ci)

RECURSIVE unwatch_range(_, _, _, _)
unwatch_range(S, ci, i, n) ==
    IF i >= n THEN S
    ELSE Bind(unwatch_literal(S, At(S.cs[ci].lits, i), ci), LAMBDA S1 :
             unwatch_range(S1, ci, i + 1, n))

RECURSIVE watch_range(_, _, _, _)
watch_range(S, ci, i, n) ==
    IF i >= n THEN S
    ELSE Bind(watch_literal(S, At(S.cs[ci].lits, i), ci), LAMBDA S1 :
             watch_range(S1, ci, i + 1, n))

clear_watch_card(S, ci) ==
    unwatch_range(S, ci, 0, Min(S.cs[ci].k + 1, S.cs[ci].size))

clear_watch_pb(S, ci) ==
    Bind(unwatch_range(S, ci, 0, S.cs[ci].num_watch), LAMBDA S1 :
        [S1 EXCEPT !.cs[ci].num_watch = 0])

\* clear_watch(xor&): both polarities of positions 0 and 1
clear_watch_xor(S, ci) ==
    Bind(S.cs[ci].lits, LAMBDA x :
    Bind(unwatch_literal(S, At(x, 0), ci), LAMBDA S1 :
    Bind(unwatch_literal(S1, At(x, 1), ci), LAMBDA S2 :
    Bind(unwatch_literal(S2, Neg(At(x, 0)), ci), LAMBDA S3 :
        unwatch_literal(S3, Neg(At(x, 1)), ci)))))

clear_watch(S, ci) ==
    IF S.cs[ci].tag = "card" THEN clear_watch_card(S, ci)
    ELSE IF S.cs[ci].tag = "pb" THEN clear_watch_pb(S, ci)
    ELSE clear_watch_xor(S, ci)

nullify_tracking_literal(S, ci) ==
    IF S.cs[ci].lit # null_literal
    THEN Bind(unwatch_literal(S, S.cs[ci].lit, ci), LAMBDA S1 :
         Bind(unwatch_literal(S1, Neg(S.cs[ci].lit), ci), LAMBDA S2 :
             [S2 EXCEPT !.cs[ci].lit = null_literal]))
    ELSE S

remove_constraint(S, ci) ==
    Bind(nullify_tracking_literal(S, ci), LAMBDA S1 :
    Bind(clear_watch(S1, ci), LAMBDA S2 :
        [S2 EXCEPT !.cs[ci].removed = TRUE]))

----------------------------------------------------------------------------
(* set_conflict / assign of the extension *)

set_conflict(S, ci, lit) ==
    IF S.cs[ci].tag = "xor" /\ value(S, lit) = "T"
    THEN core_set_conflict(S, ci, lit)
    ELSE core_set_conflict(S, ci, Neg(lit))

\* an assign that drops the propagation
assign_dropped(S, ci, lit) == S

assign(S, ci, lit) ==
    IF S.inc THEN S
    ELSE IF value(S, lit) = "T" THEN S
    ELSE IF value(S, lit) = "F" THEN set_conflict(S, ci, lit)
    ELSE core_assign([S EXCEPT !.nprops = 1], lit, ci)

RECURSIVE assign_range(_, _, _, _)
assign_range(S, ci, i, n) ==
    IF i >= n THEN S
    ELSE Bind(assign(S, ci, At(S.cs[ci].lits, i)), LAMBDA S1 :
             assign_range(S1, ci, i + 1, n))

----------------------------------------------------------------------------
(* Cardinality propagation *)

\* the partition loop of init_watch: non-false literals to the head;
\* returns the constraint and j, the number of non-false literals
RECURSIVE card_partition(_, _, _, _)
card_partition(S, c, i, j) ==
    IF i >= c.size THEN [c |-> c, j |-> j]
    ELSE IF value(S, At(c.lits, i)) # "F"
         THEN Bind(IF j # i THEN cswap(c, i, j) ELSE c, LAMBDA c1 :
                  card_partition(S, c1, i + 1, j + 1))
         ELSE card_partition(S, c, i + 1, j)

\* the loop that moves a false literal of maximal level to position j
RECURSIVE card_max_level(_, _, _, _)
card_max_level(S, c, i, j) ==
    IF i >= c.size THEN c
    ELSE IF level(S, At(c.lits, j)) < level(S, At(c.lits, i))
         THEN Bind(cswap(c, i, j), LAMBDA c1 : card_max_level(S, c1, i + 1, j))
         ELSE card_max_level(S, c, i + 1, j)

\* init_watch(card&, bool): [S, r] with r the returned bool
init_watch_card(S0, ci, is_true) ==
    Bind(clear_watch_card(S0, ci), LAMBDA S1 :
    Bind(IF S1.cs[ci].lit # null_literal /\ Sign(S1.cs[ci].lit) = is_true
         THEN card_negate(S1.cs[ci]) ELSE S1.cs[ci], LAMBDA c1 :
    Bind([S1 EXCEPT !.cs[ci] = c1], LAMBDA S2 :
        IF c1.k = c1.size
        THEN [S |-> assign_range(S2, ci, 0, c1.size), r |-> FALSE]
        ELSE Bind(card_partition(S2, c1, 0, 0), LAMBDA pr :
                 IF pr.j < c1.k
                 THEN Bind(card_max_level(S2, pr.c, c1.k, pr.j), LAMBDA c3 :
                          [S |-> set_conflict([S2 EXCEPT !.cs[ci] = c3,
                                                         !.ub_read = @ \/ pr.j >= Len(c3.lits)],
                                              ci, AtUB(c3.lits, pr.j, S0.ub)),
                           r |-> FALSE])
                 ELSE IF pr.j = c1.k
                 THEN [S |-> assign_range([S2 EXCEPT !.cs[ci] = pr.c], ci, 0, c1.k), r |-> FALSE]
                 ELSE [S |-> watch_range([S2 EXCEPT !.cs[ci] = pr.c], ci, 0, c1.k + 1),
                       r |-> TRUE]))))

\* first position in [i, n) of c holding alit, or -1
RECURSIVE find_lit(_, _, _, _)
find_lit(c, i, n, alit) ==
    IF i >= n THEN 0 - 1
    ELSE IF At(c.lits, i) = alit THEN i
    ELSE find_lit(c, i + 1, n, alit)

\* first position in [i, n) of c holding a literal that is not false, or -1
RECURSIVE find_non_false(_, _, _, _)
find_non_false(S, c, i, n) ==
    IF i >= n THEN 0 - 1
    ELSE IF value(S, At(c.lits, i)) # "F" THEN i
    ELSE find_non_false(S, c, i + 1, n)

\* add_assign(card&, literal) overlooking the second false watch
add_assign_card_no_conflict(S, ci, alit) ==
    Bind(S.cs[ci], LAMBDA c :
        IF c.k = c.size
        THEN [S |-> set_conflict(S, ci, alit), r |-> "l_false"]
        ELSE Bind(find_lit(c, 0, c.k + 1, alit), LAMBDA index :
                 IF index < 0
                 THEN [S |-> S, r |-> "l_undef"]
                 ELSE Bind(find_non_false(S, c, c.k + 1, c.size), LAMBDA i :
                          IF i >= 0
                          THEN [S |-> watch_literal([S EXCEPT !.cs[ci] = cswap(c, index, i)],
                                                    At(c.lits, i), ci),
                                r |-> "l_undef"]
                          ELSE IF c.k # index /\ value(S, At(c.lits, c.k)) = "F"
                          THEN [S |-> S, r |-> "l_undef"]
                          ELSE Bind(assign_range(IF index # c.k
                                                 THEN [S EXCEPT !.cs[ci] = cswap(c, index, c.k)]
                                                 ELSE S, ci, 0, c.k), LAMBDA S2 :
                                       [S |-> S2, r |-> IF S2.inc THEN "l_false" ELSE "l_true"]))))

\* add_assign(card&, literal): [S, r] with r in {"l_true", "l_false", "l_undef"}
add_assign_card(S, ci, alit) ==
    Bind(S.cs[ci], LAMBDA c :
        IF c.k = c.size
        THEN [S |-> set_conflict(S, ci, alit), r |-> "l_false"]
        ELSE Bind(find_lit(c, 0, c.k + 1, alit), LAMBDA index :
                 IF index < 0
                 THEN [S |-> S, r |-> "l_undef"]
                 ELSE Bind(find_non_false(S, c, c.k + 1, c.size), LAMBDA i :
                          IF i >= 0
                          THEN [S |-> watch_literal([S EXCEPT !.cs[ci] = cswap(c, index, i)],
                                                    At(c.lits, i), ci),
                                r |-> "l_undef"]
                          ELSE IF c.k # index /\ value(S, At(c.lits, c.k)) = "F"
                          THEN [S |-> set_conflict(S, ci, alit), r |-> "l_false"]
                          ELSE Bind(assign_range(IF index # c.k
                                                 THEN [S EXCEPT !.cs[ci] = cswap(c, index, c.k)]
                                                 ELSE S, ci, 0, c.k), LAMBDA S2 :
                                       [S |-> S2, r |-> IF S2.inc THEN "l_false" ELSE "l_true"]))))

----------------------------------------------------------------------------
(* Pseudo-Boolean propagation *)

\* the partition loop of init_watch(pb&): loop state is the constraint,
\* slack, slack1, num_watch and j
RECURSIVE pb_partition(_, _, _)
pb_partition(S, i, st) ==
    IF i >= st.c.size THEN st
    ELSE IF value(S, At(st.c.lits, i)) # "F"
         THEN Bind(IF st.j # i THEN cswap(st.c, i, st.j) ELSE st.c, LAMBDA c1 :
              Bind(IF st.slack <= c1.k
                   THEN [c |-> c1, slack |-> st.slack + At(c1.coeffs, st.j),
                         slack1 |-> st.slack1,
                         num_watch |-> st.num_watch + 1, j |-> st.j + 1]
                   ELSE [c |-> c1, slack |-> st.slack,
                         slack1 |-> st.slack1 + At(c1.coeffs, st.j),
                         num_watch |-> st.num_watch, j |-> st.j + 1], LAMBDA st1 :
                  pb_partition(S, i + 1, st1)))
         ELSE pb_partition(S, i + 1, st)

\* the false literal of maximal level among positions i.. (first one wins ties)
RECURSIVE pb_max_level_lit(_, _, _, _)
pb_max_level_lit(S, c, i, lit) ==
    IF i >= c.size THEN lit
    ELSE pb_max_level_lit(S, c, i + 1,
             IF level(S, lit) < level(S, At(c.lits, i)) THEN At(c.lits, i) ELSE lit)

\* an init_watch that clears the watches and registers none
init_watch_pb_none(S0, ci, is_true) == [S |-> clear_watch_pb(S0, ci), r |-> TRUE]

\* an init_watch(pb&, bool) that assigns the head whenever there is no conflict
init_watch_pb_always_assigns(S0, ci, is_true) ==
    Bind(clear_watch_pb(S0, ci), LAMBDA S1 :
    Bind(IF S1.cs[ci].lit # null_literal /\ Sign(S1.cs[ci].lit) = is_true
         THEN pb_negate(S1.cs[ci]) ELSE S1.cs[ci], LAMBDA p1 :
    Bind(pb_partition(S1, 0, [c |-> p1, slack |-> 0, slack1 |-> 0, num_watch |-> 0, j |-> 0]),
         LAMBDA st :
    Bind([S1 EXCEPT !.cs[ci] = st.c,
                    !.ub_read = @ \/ (st.slack < p1.k /\ st.j >= Len(st.c.lits))], LAMBDA S2 :
        IF st.slack < p1.k
        THEN Bind(pb_max_level_lit(S2, st.c, st.j + 1, AtUB(st.c.lits, st.j, S0.ub)), LAMBDA lit :
                 [S |-> set_conflict(S2, ci, lit), r |-> FALSE])
        ELSE Bind(watch_range(S2, ci, 0, st.num_watch), LAMBDA S3 :
             Bind([S3 EXCEPT !.cs[ci].slack = st.slack, !.cs[ci].num_watch = st.num_watch],
                  LAMBDA S4 :
                 [S |-> IF st.slack + st.slack1 >= p1.k
                        THEN assign_range(S4, ci, 0, st.j) ELSE S4,
                  r |-> TRUE]))))))

\* init_watch(pb&, bool)
init_watch_pb(S0, ci, is_true) ==
    Bind(clear_watch_pb(S0, ci), LAMBDA S1 :
    Bind(IF S1.cs[ci].lit # null_literal /\ Sign(S1.cs[ci].lit) = is_true
         THEN pb_negate(S1.cs[ci]) ELSE S1.cs[ci], LAMBDA p1 :
    Bind(pb_partition(S1, 0, [c |-> p1, slack |-> 0, slack1 |-> 0, num_watch |-> 0, j |-> 0]),
         LAMBDA st :
    Bind([S1 EXCEPT !.cs[ci] = st.c,
                    !.ub_read = @ \/ (st.slack < p1.k /\ st.j >= Len(st.c.lits))], LAMBDA S2 :
        IF st.slack < p1.k
        THEN Bind(pb_max_level_lit(S2, st.c, st.j + 1, AtUB(st.c.lits, st.j, S0.ub)), LAMBDA lit :
                 [S |-> set_conflict(S2, ci, lit), r |-> FALSE])
        ELSE Bind(watch_range(S2, ci, 0, st.num_watch), LAMBDA S3 :
             Bind([S3 EXCEPT !.cs[ci].slack = st.slack, !.cs[ci].num_watch = st.num_watch],
                  LAMBDA S4 :
                 [S |-> IF st.slack + st.slack1 = p1.k
                        THEN assign_range(S4, ci, 0, st.j) ELSE S4,
                  r |-> TRUE]))))))

\* add_index: loop state st carries m_pb_undef and m_a_max
\* an add_index that records the undefined position but not its weight
add_index_no_max(S, p, index, lit, st) ==
    IF value(S, lit) = "U"
    THEN [st EXCEPT !.m_pb_undef = Append(st.m_pb_undef, index)]
    ELSE st

add_index(S, p, index, lit, st) ==
    IF value(S, lit) = "U"
    THEN [st EXCEPT !.m_pb_undef = Append(st.m_pb_undef, index),
                    !.m_a_max = Max(st.m_a_max, At(p.coeffs, index))]
    ELSE st

\* first loop of add_assign(pb&): collect the undefined literals before alit
RECURSIVE pb_scan_before(_, _, _, _, _)
pb_scan_before(S, p, index, alit, st) ==
    IF index >= p.num_watch THEN [st EXCEPT !.index = index]
    ELSE IF At(p.lits, index) = alit THEN [st EXCEPT !.index = index]
    ELSE Bind(add_index(S, p, index, At(p.lits, index), st), LAMBDA st1 :
             pb_scan_before(S, p, index + 1, alit, st1))

\* second loop: continues only while m_a_max = 0
RECURSIVE pb_scan_after(_, _, _, _)
pb_scan_after(S, p, index1, st) ==
    IF st.m_a_max = 0 /\ index1 < p.num_watch
    THEN Bind(add_index(S, p, index1, At(p.lits, index1), st), LAMBDA st1 :
             pb_scan_after(S, p, index1 + 1, st1))
    ELSE st

\* the loop that pulls unwatched non-false literals into the watched prefix
RECURSIVE pb_pull(_, _, _, _)
pb_pull(S, ci, j, st) ==
    Bind(S.cs[ci], LAMBDA p :
        IF j < p.size /\ st.slack < p.k + st.m_a_max
        THEN Bind(At(p.lits, j), LAMBDA lit :
                 IF value(S, lit) # "F"
                 THEN Bind([watch_literal(S, lit, ci) EXCEPT !.cs[ci] = cswap(p, st.num_watch, j)],
                           LAMBDA S2 :
                      Bind(add_index(S2, S2.cs[ci], st.num_watch, lit,
                                     [st EXCEPT !.slack = st.slack + At(p.coeffs, j)]),
                           LAMBDA st1 :
                          pb_pull(S2, ci, j + 1, [st1 EXCEPT !.num_watch = st.num_watch + 1])))
                 ELSE pb_pull(S, ci, j + 1, st))
        ELSE [S |-> S, st |-> st])

\* the final loop over m_pb_undef
RECURSIVE pb_assign_undef(_, _, _, _, _, _)
pb_assign_undef(S, ci, undef, num_watch, index, slack) ==
    IF undef = <<>> THEN S
    ELSE Bind(IF Head(undef) = num_watch THEN index ELSE Head(undef), LAMBDA index1 :
         Bind(IF slack < S.cs[ci].k + At(S.cs[ci].coeffs, index1)
              THEN assign(S, ci, At(S.cs[ci].lits, index1)) ELSE S, LAMBDA S1 :
             pb_assign_undef(S1, ci, Tail(undef), num_watch, index, slack)))

\* an add_assign that neither updates the watches nor reports a conflict
add_assign_pb_silent(S, ci, alit) == [S |-> S, r |-> "l_undef"]

\* add_assign(pb&, literal); r = "exit" is the exit(0) branch
add_assign_pb(S, ci, alit) ==
    Bind(S.cs[ci], LAMBDA p :
    Bind(pb_scan_before(S, p, 0, alit,
             [index |-> 0, m_a_max |-> 0, m_pb_undef |-> <<>>,
              slack |-> p.slack, num_watch |-> p.num_watch]), LAMBDA st0 :
        IF st0.index = p.num_watch \/ p.num_watch = 0
        THEN [S |-> S, r |-> "exit"]
        ELSE Bind(pb_scan_after(S, p, st0.index + 1, st0), LAMBDA st1 :
             Bind(pb_pull(S, ci, p.num_watch,
                          [st1 EXCEPT !.slack = st1.slack - At(p.coeffs, st0.index)]),
                  LAMBDA pl :
                 IF pl.st.slack < p.k
                 THEN [S |-> set_conflict(
                                [pl.S EXCEPT !.cs[ci].slack = pl.st.slack + At(p.coeffs, st0.index),
                                             !.cs[ci].num_watch = pl.st.num_watch],
                                ci, alit),
                       r |-> "l_false"]
                 ELSE Bind([pl.S EXCEPT !.cs[ci] =
                               cswap([pl.S.cs[ci] EXCEPT !.slack = pl.st.slack,
                                                         !.num_watch = pl.st.num_watch - 1],
                                     pl.st.num_watch - 1, st0.index)], LAMBDA S2 :
                          [S |-> IF pl.st.slack < p.k + pl.st.m_a_max
                                 THEN pb_assign_undef(S2, ci, pl.st.m_pb_undef,
                                                      pl.st.num_watch - 1, st0.index, pl.st.slack)
                                 ELSE S2,
                           r |-> "l_undef"])))))

----------------------------------------------------------------------------
(* Construction and the propagate callback *)

----------------------------------------------------------------------------
(* Xor propagation *)

\* parity: whether an odd number of the literals from position offset on is true
RECURSIVE parity(_, _, _)
parity(S, x, offset) ==
    IF offset >= x.size THEN FALSE
    ELSE (value(S, At(x.lits, offset)) = "T") # parity(S, x, offset + 1)

\* the loop of init_watch(xor&): up to two unassigned literals go to the head
RECURSIVE xor_partition(_, _, _, _)
xor_partition(S, x, i, j) ==
    IF i >= x.size \/ j >= 2 THEN [x |-> x, j |-> j]
    ELSE IF value(S, At(x.lits, i)) = "U"
    THEN xor_partition(S, cswap(x, i, j), i + 1, j + 1)
    ELSE xor_partition(S, x, i + 1, j)

\* the position of the literal of maximal level, starting from position 1
RECURSIVE xor_max_level(_, _, _, _, _)
xor_max_level(S, x, i, j, l) ==
    IF i >= x.size THEN j
    ELSE IF level(S, At(x.lits, i)) > l
    THEN xor_max_level(S, x, i + 1, i, level(S, At(x.lits, i)))
    ELSE xor_max_level(S, x, i + 1, j, l)

xor_forced_even(S, x) == IF parity(S, x, 1) THEN At(x.lits, 0) ELSE Neg(At(x.lits, 0))

\* the literal forced at position 0 by the parity of the others
xor_forced(S, x) == IF parity(S, x, 1) THEN Neg(At(x.lits, 0)) ELSE At(x.lits, 0)

\* init_watch(xor&, bool), for an xor whose reifier is not negated
init_watch_xor(S0, ci, is_true) ==
    Bind(clear_watch_xor(S0, ci), LAMBDA S1 :
    Bind(xor_partition(S1, S1.cs[ci], 0, 0), LAMBDA pt :
    Bind([S1 EXCEPT !.cs[ci] = pt.x], LAMBDA S2 :
        IF pt.j = 0
        THEN [S |-> IF ~parity(S2, pt.x, 0)
                    THEN set_conflict(S2, ci,
                             At(pt.x.lits, xor_max_level(S2, pt.x, 1, 1, level(S2, At(pt.x.lits, 0)))))
                    ELSE S2,
              r |-> FALSE]
        ELSE IF pt.j = 1
        THEN [S |-> assign(S2, ci, xor_forced(S2, pt.x)), r |-> FALSE]
        ELSE Bind(watch_literal(S2, At(pt.x.lits, 0), ci), LAMBDA W1 :
             Bind(watch_literal(W1, At(pt.x.lits, 1), ci), LAMBDA W2 :
             Bind(watch_literal(W2, Neg(At(pt.x.lits, 0)), ci), LAMBDA W3 :
                 [S |-> watch_literal(W3, Neg(At(pt.x.lits, 1)), ci), r |-> TRUE]))))))

\* the index loop of add_assign(xor&): positions 0..2 are compared, 3 = none
RECURSIVE xor_find(_, _, _)
xor_find(x, alit, index) ==
    IF index > 2 THEN index
    ELSE IF Var(At(x.lits, index)) = Var(alit) THEN index
    ELSE xor_find(x, alit, index + 1)

\* the first unassigned position from i on, or -1
RECURSIVE xor_find_undef(_, _, _)
xor_find_undef(S, x, i) ==
    IF i >= x.size THEN 0 - 1
    ELSE IF value(S, At(x.lits, i)) = "U" THEN i
    ELSE xor_find_undef(S, x, i + 1)

\* add_assign(xor&, literal); UNREACHABLE() is empty in a release build
add_assign_xor(S, ci, alit) ==
    Bind(S.cs[ci], LAMBDA x :
    Bind(xor_find(x, alit, 0), LAMBDA index :
        IF index = 2 THEN [S |-> S, r |-> "l_undef"]
        ELSE Bind(xor_find_undef(S, x, 2), LAMBDA i :
            IF i >= 0
            THEN [S |-> watch_literal([S EXCEPT !.cs[ci] = cswap(x, index, i)],
                                      At(x.lits, i), ci),
                  r |-> "l_undef"]
            ELSE Bind(IF index = 0 THEN cswap(x, 0, 1) ELSE x, LAMBDA x1 :
                 Bind([S EXCEPT !.cs[ci] = x1], LAMBDA S1 :
                 Bind(IF value(S1, At(x1.lits, 0)) = "U"
                      THEN assign(S1, ci, xor_forced(S1, x1))
                      ELSE IF ~parity(S1, x1, 0)
                      THEN set_conflict(S1, ci, Neg(At(x1.lits, 1)))
                      ELSE S1, LAMBDA S2 :
                     [S |-> S2, r |-> IF S2.inc THEN "l_false" ELSE "l_true"]))))))

\* init_watch(constraint&, bool)
init_watch(S, ci, is_true) ==
    IF S.inc THEN [S |-> S, r |-> FALSE]
    ELSE IF S.cs[ci].tag = "card" THEN init_watch_card(S, ci, is_true)
    ELSE IF S.cs[ci].tag = "pb" THEN init_watch_pb(S, ci, is_true)
    ELSE init_watch_xor(S, ci, is_true)

\* an add_assign that reports l_undef where add_assign reports l_true
add_assign_never_true(S, ci, l) ==
    Bind(IF S.cs[ci].tag = "card" THEN add_assign_card(S, ci, l)
         ELSE IF S.cs[ci].tag = "pb" THEN add_assign_pb(S, ci, l)
         ELSE add_assign_xor(S, ci, l), LAMBDA a :
        [a EXCEPT !.r = IF a.r = "l_true" THEN "l_undef" ELSE a.r])

\* add_assign(constraint&, literal)
add_assign(S, ci, l) ==
    IF S.cs[ci].tag = "card" THEN add_assign_card(S, ci, l)
    ELSE IF S.cs[ci].tag = "pb" THEN add_assign_pb(S, ci, l)
    ELSE add_assign_xor(S, ci, l)

\* an add_constraint that registers a reified constraint under one polarity only
add_constraint_one_polarity(S, c) ==
    Bind(Len(S.cs) + 1, LAMBDA ci :
    Bind([S EXCEPT !.cs = Append(S.cs, c),
                   !.learned = IF c.learned THEN Append(S.learned, ci) ELSE S.learned], LAMBDA S1 :
        IF c.lit = null_literal
        THEN init_watch(S1, ci, TRUE).S
        ELSE [S1 EXCEPT !.wl[c.lit] = Append(S1.wl[c.lit], ci)]))

\* add_constraint: the new constraint takes the next index
add_constraint(S, c) ==
    Bind(Len(S.cs) + 1, LAMBDA ci :
    Bind([S EXCEPT !.cs = Append(S.cs, c),
                   !.learned = IF c.learned THEN Append(S.learned, ci) ELSE S.learned], LAMBDA S1 :
        IF c.learned /\ S.scope # 0
        THEN [S1 EXCEPT !.reinit = Append(S1.reinit, ci)]
        ELSE IF c.lit = null_literal
        THEN init_watch(S1, ci, TRUE).S
        ELSE [S1 EXCEPT !.wl[c.lit] = Append(S1.wl[c.lit], ci),
                        !.wl[Neg(c.lit)] = Append(S1.wl[Neg(c.lit)], ci)]))

\* an add_at_least without the clause case: it always creates a card
add_at_least_always_card(S, lit, lits, k, learned) ==
    Bind(mk_card(lit, lits, k, learned), LAMBDA c : add_constraint(S, c))

\* add_at_least(literal, literal_vector, k, learned)
add_at_least(S, lit, lits, k, learned) ==
    IF k = 1 /\ lit = null_literal
    THEN core_mk_clause(S, lits)
    ELSE Bind(mk_card(lit, lits, k, learned), LAMBDA c : add_constraint(S, c))

\* add_pb_ge(literal, svector<wliteral>, k, learned)
add_pb_ge(S, lit, coeffs, lits, k, learned) ==
    IF k = 0 /\ lit = null_literal THEN S
    ELSE IF (\A i \in 1..Len(coeffs) : coeffs[i] = 1) \/ k = 1
    THEN add_at_least(S, lit, lits, k, learned)
    ELSE Bind(mk_pb(lit, coeffs, lits, k, learned), LAMBDA p : add_constraint(S, p))

\* add_xor(literal, literal_vector, learned)
add_xor(S, lit, lits, learned) ==
    Bind(mk_xor(lit, lits, learned), LAMBDA x : add_constraint(S, x))

\* propagate(literal l, ext_constraint_idx): r is "keep watching"
propagate(S, l, ci) ==
    Bind(S.cs[ci], LAMBDA c :
        IF c.lit # null_literal /\ Var(l) = Var(c.lit)
        THEN [S |-> init_watch(S, ci, ~Sign(l)).S, r |-> TRUE]
        ELSE IF c.lit # null_literal /\ value(S, c.lit) # "T"
        THEN [S |-> S, r |-> TRUE]
        ELSE Bind(add_assign(S, ci, Neg(l)), LAMBDA a :
                 [S |-> a.S, r |-> a.r # "l_undef"]))

\* the core's walk over the watch list of the literal l that became true:
\* entries whose callback returns false are dropped, and the walk stops at
\* the first conflict, keeping the remaining entries
RECURSIVE propagate_wlist(_, _, _, _)
propagate_wlist(S, l, todo, kept) ==
    IF todo = <<>> THEN [S EXCEPT !.wl[l] = kept]
    ELSE Bind(propagate(S, l, Head(todo)), LAMBDA pr :
         Bind(IF pr.r THEN Append(kept, Head(todo)) ELSE kept, LAMBDA kept1 :
             IF pr.S.inc
             THEN [pr.S EXCEPT !.wl[l] = kept1 \o Tail(todo)]
             ELSE propagate_wlist(pr.S, l, Tail(todo), kept1)))

----------------------------------------------------------------------------
(* Root substitution: split_root, recompile, flush_roots *)

\* the first loop of split_root and of recompile: m_weights[l] += coeff
RECURSIVE add_weights(_, _, _)
add_weights(w, c, i) ==
    IF i >= c.size THEN w
    ELSE Bind([w EXCEPT ![At(c.lits, i)] = @ + At(c.coeffs, i)], LAMBDA w1 :
             add_weights(w1, c, i + 1))

\* the second loop of split_root over lits: st = [w, k, done]; done is the
\* early return "constraint is true"
RECURSIVE split_root_reduce(_, _)
split_root_reduce(lits, st) ==
    IF lits = <<>> \/ st.done THEN st
    ELSE Bind(Head(lits), LAMBDA l :
             IF st.w[l] >= st.w[Neg(l)]
             THEN IF st.w[Neg(l)] >= st.k
                  THEN [st EXCEPT !.done = TRUE]
                  ELSE Bind([st EXCEPT !.k = st.k - st.w[Neg(l)], !.w[Neg(l)] = 0,
                                       !.w[l] = st.w[l] - st.w[Neg(l)]], LAMBDA st1 :
                           split_root_reduce(Tail(lits), st1))
             ELSE split_root_reduce(Tail(lits), st))

\* the third loop of split_root: collect m_wlits and clear the weights
RECURSIVE split_root_collect(_, _)
split_root_collect(lits, st) ==
    IF lits = <<>> THEN st
    ELSE Bind(Head(lits), LAMBDA l :
         Bind([w |-> [st.w EXCEPT ![l] = 0],
               coeffs |-> IF st.w[l] # 0 THEN Append(st.coeffs, st.w[l]) ELSE st.coeffs,
               lits |-> IF st.w[l] # 0 THEN Append(st.lits, l) ELSE st.lits], LAMBDA st1 :
             split_root_collect(Tail(lits), st1)))

\* split_root(pb_base&)
split_root(S, ci) ==
    Bind(S.cs[ci], LAMBDA p :
    Bind(Append(literals(p), Neg(p.lit)), LAMBDA lits :
    Bind(split_root_reduce(lits,
             [w |-> add_weights([S.weights EXCEPT ![Neg(p.lit)] = p.k], p, 0),
              k |-> p.k, done |-> FALSE]), LAMBDA red :
        IF red.done THEN [S EXCEPT !.weights = red.w]
        ELSE Bind(split_root_collect(lits, [w |-> red.w, coeffs |-> <<>>, lits |-> <<>>]),
                  LAMBDA col :
                 add_pb_ge([S EXCEPT !.weights = col.w], null_literal, col.coeffs, col.lits,
                           red.k, FALSE)))))

\* the weight loop shared by recompile(card&) and recompile(pb&):
\* st = [c, w, k, sz, i, coeffs, all_units]
RECURSIVE recompile_loop(_)
recompile_loop(st) ==
    IF ~(st.i < st.sz /\ 0 < st.k) THEN st
    ELSE Bind(At(st.c.lits, st.i), LAMBDA l :
             IF st.w[l] = 0 \/ st.w[l] < st.w[Neg(l)]
             THEN Bind([st EXCEPT !.c = cswap(st.c, st.i, st.sz - 1), !.sz = st.sz - 1],
                       LAMBDA st1 : recompile_loop(st1))
             ELSE IF st.k <= st.w[Neg(l)]
             THEN [st EXCEPT !.k = 0]
             ELSE Bind(st.w[l] - st.w[Neg(l)], LAMBDA wn :
                  Bind(IF wn = 0
                       THEN [st EXCEPT !.k = st.k - st.w[Neg(l)], !.w[l] = 0, !.w[Neg(l)] = 0,
                                       !.c = cswap(st.c, st.i, st.sz - 1), !.sz = st.sz - 1]
                       ELSE [st EXCEPT !.k = st.k - st.w[Neg(l)], !.w[l] = 0, !.w[Neg(l)] = 0,
                                       !.c.coeffs = Put(st.c.coeffs, st.i, wn),
                                       !.i = st.i + 1,
                                       !.coeffs = Append(st.coeffs, wn),
                                       !.all_units = st.all_units /\ wn = 1], LAMBDA st1 :
                      recompile_loop(st1))))

\* "clear weights": the weights of the literals of c and of their negations
RECURSIVE clear_weights(_, _, _)
clear_weights(w, c, i) ==
    IF i >= c.size THEN w
    ELSE Bind([w EXCEPT ![At(c.lits, i)] = 0, ![Neg(At(c.lits, i))] = 0], LAMBDA w1 :
             clear_weights(w1, c, i + 1))

recompile_weights(S, ci) ==
    Bind(recompile_loop([c |-> S.cs[ci], w |-> add_weights(S.weights, S.cs[ci], 0),
                         k |-> S.cs[ci].k, sz |-> S.cs[ci].size, i |-> 0,
                         coeffs |-> <<>>, all_units |-> TRUE]), LAMBDA st :
        [st EXCEPT !.w = clear_weights(st.w, st.c, 0)])

\* recompile(card&); a card stores no coefficients, the part of the array the
\* weight loop changes is the literals
recompile_card(S, ci) ==
    Bind(recompile_weights(S, ci), LAMBDA st :
    Bind([S.cs[ci] EXCEPT !.lits = st.c.lits], LAMBDA c1 :
    Bind([S EXCEPT !.weights = st.w, !.cs[ci] = c1], LAMBDA S1 :
        IF st.k = 0 THEN remove_constraint(S1, ci)
        ELSE IF st.k = 1
        THEN Bind(core_mk_clause(S1, literals(c1)), LAMBDA S2 : remove_constraint(S2, ci))
        ELSE Bind([S1 EXCEPT !.cs[ci] = set_k([c1 EXCEPT !.size = st.sz], st.k)], LAMBDA S2 :
                 IF ~st.all_units
                 THEN Bind(remove_constraint(S2, ci), LAMBDA S3 :
                          add_pb_ge(S3, c1.lit, st.coeffs, SubSeq(c1.lits, 1, st.sz), st.k,
                                    c1.learned))
                 ELSE IF c1.lit = null_literal \/ value(S2, c1.lit) = "T"
                 THEN init_watch(S2, ci, TRUE).S
                 ELSE S2))))

\* recompile(pb&)
recompile_pb(S, ci) ==
    Bind(recompile_weights(S, ci), LAMBDA st :
    Bind([S EXCEPT !.weights = st.w, !.cs[ci] = st.c], LAMBDA S1 :
        IF st.k = 0
        THEN Bind(IF st.c.lit # null_literal THEN core_assign_unit(S1, st.c.lit) ELSE S1,
                  LAMBDA S2 : remove_constraint(S2, ci))
        ELSE IF st.k = 1 /\ st.c.lit = null_literal
        THEN Bind(core_mk_clause(S1, literals(st.c)), LAMBDA S2 : remove_constraint(S2, ci))
        ELSE IF st.all_units
        THEN Bind(add_at_least(S1, st.c.lit, literals(st.c), st.k, st.c.learned), LAMBDA S2 :
                 remove_constraint(S2, ci))
        ELSE Bind([S1 EXCEPT !.cs[ci] = set_k([st.c EXCEPT !.size = st.sz], st.k)], LAMBDA S2 :
                 IF st.c.lit = null_literal \/ value(S2, st.c.lit) = "T"
                 THEN init_watch(S2, ci, TRUE).S
                 ELSE S2)))

\* recompile(constraint&)
recompile(S, ci) ==
    IF S.cs[ci].tag = "card" THEN recompile_card(S, ci) ELSE recompile_pb(S, ci)

\* set_root(l, r)
set_root(roots, l, r) == [roots EXCEPT ![l] = r, ![Neg(l)] = Neg(r)]

\* m_root_vars: the variables that were given a root
root_var(roots, v) == roots[v] # v

\* the duplicate scan of flush_roots: a literal whose variable was seen before
has_dup(c) ==
    \E i, j \in 1..c.size : i < j /\ Var(c.lits[i]) = Var(c.lits[j])

\* the part of flush_roots(constraint&) that rewrites the body and the
\* reifier of a constraint that mentions a root variable
flush_roots_subst(S, roots, ci) ==
    Bind(clear_watch(S, ci), LAMBDA S1 :
    Bind([S1 EXCEPT !.cs[ci].lits = [i \in 1..Len(S1.cs[ci].lits) |->
                 IF i <= S1.cs[ci].size THEN roots[S1.cs[ci].lits[i]] ELSE S1.cs[ci].lits[i]]],
         LAMBDA S2 :
        IF S2.cs[ci].lit # null_literal /\ roots[S2.cs[ci].lit] # S2.cs[ci].lit
        THEN Bind(roots[S2.cs[ci].lit], LAMBDA root :
             Bind(nullify_tracking_literal(S2, ci), LAMBDA N :
                 [N EXCEPT !.cs[ci].lit = root,
                           !.wl[root] = Append(N.wl[root], ci),
                           !.wl[Neg(root)] = Append(N.wl[Neg(root)], ci)]))
        ELSE S2))

\* flush_roots(constraint&)
flush_roots_constraint(S, roots, ci) ==
    IF ~(\/ (S.cs[ci].lit # null_literal /\ root_var(roots, Var(S.cs[ci].lit)))
         \/ \E i \in 1..S.cs[ci].size : root_var(roots, Var(S.cs[ci].lits[i])))
    THEN S
    ELSE Bind(flush_roots_subst(S, roots, ci), LAMBDA S3 :
         Bind(S3.cs[ci], LAMBDA c3 :
             IF \E i \in 1..c3.size : Var(c3.lits[i]) = Var(c3.lit)
             THEN Bind(split_root(S3, ci), LAMBDA A :
                  Bind([A EXCEPT !.cs[ci] = negate(A.cs[ci])], LAMBDA B :
                  Bind(split_root(B, ci), LAMBDA C :
                      remove_constraint(C, ci))))
             ELSE IF has_dup(c3) THEN recompile(S3, ci)
             ELSE IF c3.lit = null_literal \/ value(S3, c3.lit) = "T"
             THEN init_watch(S3, ci, TRUE).S
             ELSE S3))

\* flush_roots(): the constraints present at the call, in order; removed
\* ones have been swept by cleanup_constraints
RECURSIVE flush_roots_from(_, _, _, _)
flush_roots_from(S, roots, ci, sz) ==
    IF ci > sz THEN S
    ELSE Bind(IF S.cs[ci].removed THEN S ELSE flush_roots_constraint(S, roots, ci), LAMBDA S1 :
             flush_roots_from(S1, roots, ci + 1, sz))

flush_roots(S, roots) == flush_roots_from(S, roots, 1, Len(S.cs))

----------------------------------------------------------------------------
(* Scopes: push, pop, pop_reinit *)

\* push
push(S) == [S EXCEPT !.reinit_lim = Append(S.reinit_lim, Len(S.reinit))]

\* the loop of pop_reinit: constraints whose init_watch fails above base
\* level stay queued
RECURSIVE pop_reinit_loop(_, _, _)
pop_reinit_loop(S, todo, kept) ==
    IF todo = <<>> THEN [S EXCEPT !.reinit = kept]
    ELSE Bind(init_watch(S, Head(todo), TRUE), LAMBDA iw :
             pop_reinit_loop(iw.S, Tail(todo),
                 IF ~iw.r /\ iw.S.scope # 0 THEN Append(kept, Head(todo)) ELSE kept))

\* pop(n) with a pop_reinit that does nothing
pop_without_reinit(S, n) ==
    [S EXCEPT !.reinit_lim = SubSeq(S.reinit_lim, 1, Len(S.reinit_lim) - n), !.nprops = 0]

\* pop(n) that also discards the constraints queued since the push undone
pop_discarding_queued(S, n) ==
    Bind(At(S.reinit_lim, Len(S.reinit_lim) - n), LAMBDA last_sz :
        [S EXCEPT !.reinit_lim = SubSeq(S.reinit_lim, 1, Len(S.reinit_lim) - n),
                  !.nprops = 0,
                  !.reinit = SubSeq(S.reinit, 1, last_sz),
                  !.cs = [i \in 1..Len(S.cs) |->
                             IF \E j \in (last_sz + 1)..Len(S.reinit) : S.reinit[j] = i
                             THEN [S.cs[i] EXCEPT !.removed = TRUE] ELSE S.cs[i]]])

\* pop(n) followed by pop_reinit()
pop_reinit(S, n) ==
    Bind(At(S.reinit_lim, Len(S.reinit_lim) - n), LAMBDA last_sz :
        pop_reinit_loop([S EXCEPT !.reinit_lim = SubSeq(S.reinit_lim, 1, Len(S.reinit_lim) - n),
                                  !.nprops = 0],
                        SubSeq(S.reinit, last_sz + 1, Len(S.reinit)),
                        SubSeq(S.reinit, 1, last_sz)))

\* the core's pop of n scopes: literals above the new level are unassigned,
\* the conflict is cleared and the propagation queue is empty
RECURSIVE trail_upto(_, _, _)
trail_upto(S, t, new_lvl) ==
    IF t = <<>> THEN <<>>
    ELSE IF level(S, Head(t)) > new_lvl THEN <<>>
    ELSE <<Head(t)>> \o trail_upto(S, Tail(t), new_lvl)

core_pop(S, n) ==
    Bind(trail_upto(S, S.trail, S.scope - n), LAMBDA t :
        [S EXCEPT !.val = [v \in DOMAIN S.val |-> IF S.lvl[v] > S.scope - n THEN "U" ELSE S.val[v]],
                  !.just = [v \in DOMAIN S.val |-> IF S.lvl[v] > S.scope - n THEN 0 ELSE S.just[v]],
                  !.lvl = [v \in DOMAIN S.val |-> IF S.lvl[v] > S.scope - n THEN 0 ELSE S.lvl[v]],
                  !.trail = t, !.qhead = Len(t), !.scope = S.scope - n,
                  !.inc = FALSE, !.confl = 0, !.not_l = null_literal])

----------------------------------------------------------------------------
(* The propagation engine on one constraint.  Assignments made by the rest *)
(* of the solver (decisions, clause propagation, other constraints) reach  *)
(* the constraint as core assignments.                                     *)

\* the variables and literals of the solver at hand
num_vars == Len(val)
AllLits == DOMAIN m_watches

\* bodies over the variables 1..n, in array order
Body(n) == [i \in 1..n |-> i]
BodySizes(lit) == 1..(IF lit = null_literal THEN num_vars ELSE num_vars - 1)
Reifiers == {null_literal, num_vars}
\* a reifier is a variable the caller has not assigned yet
FreshReifiers == {lit \in Reifiers : lit = null_literal \/ value(St, lit) = "U"}
CoeffSeqs(n) == [1..n -> 1..MaxCoeff]

resolverUnchanged == UNCHANGED <<m_roots, m_coeffs, m_active_vars, m_bound, m_overflow,
                   m_mark, m_num_marks, debug_conflict, s_m_lemma, int_max,
                                 m_lemma, m_conflict_lvl, m_num_cut, pc, ret>>

\* the solver after construction with n variables; the resolver is idle
InitSolverOn(n, imax) ==
    /\ Install0(EmptySolver(n))
    /\ m_roots = [l \in LitsOf(n) |-> l]
    /\ m_coeffs = [v \in 1..n |-> 0]
    /\ m_active_vars = <<>>
    /\ m_bound = 0
    /\ m_overflow = FALSE
    /\ m_mark = {}
    /\ m_num_marks = 0
    /\ debug_conflict = FALSE
    /\ s_m_lemma = <<>>
    /\ int_max = imax
    /\ m_lemma = <<>>
    /\ m_conflict_lvl = 0
    /\ m_num_cut = 0
    /\ pc = "engine"
    /\ ret = "none"

InitSolver(n) == InitSolverOn(n, INT_MAX)

Init == InitSolver(NumVars)

\* the engine on cardinality constraints only, with one more variable
InitCard == InitSolver(CardVars)

\* add_at_least at base level
AddAtLeast ==
    /\ m_constraints = <<>> /\ m_clauses = {} /\ m_scope_lvl = 0 /\ ~m_inconsistent
    /\ m_constraint_to_reinit_lim = <<>>
    /\ \E lit \in FreshReifiers : \E n \in BodySizes(lit) : \E k \in 1..n :
       \E S \in Outcomes(LAMBDA u : add_at_least(StUB(u), lit, Body(n), k, FALSE)) :
           Install(S)
    /\ resolverUnchanged

\* add_pb_ge at base level
AddPbGe ==
    /\ m_constraints = <<>> /\ m_clauses = {} /\ m_scope_lvl = 0 /\ ~m_inconsistent
    /\ m_constraint_to_reinit_lim = <<>>
    /\ \E lit \in FreshReifiers : \E n \in BodySizes(lit) : \E a \in CoeffSeqs(n) :
       \E k \in 0..SumSeq(a) :
       \E S \in Outcomes(LAMBDA u : add_pb_ge(StUB(u), lit, a, Body(n), k, FALSE)) :
           Install(S)
    /\ resolverUnchanged

\* the core decides l on a new level
Decide ==
    /\ ~m_inconsistent /\ m_qhead = Len(m_trail) /\ m_scope_lvl < MaxLevel
    /\ \E l \in AllLits :
           /\ value(St, l) = "U"
           /\ \E S \in {core_assign(push([St EXCEPT !.scope = m_scope_lvl + 1]), l, 0)} :
                  Install(S)
    /\ resolverUnchanged

\* the core assigns l at the current level (a unit, or a clause propagation)
Imply ==
    /\ ~m_inconsistent
    /\ \E l \in AllLits :
           /\ value(St, l) = "U"
           /\ \E S \in {core_assign(St, l, 0)} : Install(S)
    /\ resolverUnchanged

\* the core takes the next literal of the trail and runs the callbacks of
\* its watch list
Propagate ==
    /\ ~m_inconsistent /\ m_qhead < Len(m_trail)
    /\ \E S \in Outcomes(LAMBDA u :
              propagate_wlist([StUB(u) EXCEPT !.qhead = m_qhead + 1], At(m_trail, m_qhead),
                              m_watches[At(m_trail, m_qhead)], <<>>)) :
           Install(S)
    /\ resolverUnchanged

\* the core backjumps n levels (conflict or restart), then pop_reinit
Backjump ==
    /\ m_scope_lvl > 0
    /\ \E n \in 1..m_scope_lvl :
       \E S \in Outcomes(LAMBDA u : Bind(core_pop(StUB(u), n), LAMBDA P : pop_reinit(P, n))) :
           Install(S)
    /\ resolverUnchanged

Next == AddAtLeast \/ AddPbGe \/ Decide \/ Imply \/ Propagate \/ Backjump

Spec == Init /\ [][Next]_vars

NextCard == AddAtLeast \/ Decide \/ Imply \/ Propagate \/ Backjump

SpecCard == InitCard /\ [][NextCard]_vars

----------------------------------------------------------------------------
(* Simplification at base level: equivalences found by the core are handed *)
(* over with set_root and applied with flush_roots.                        *)

\* set_root(l, r): l is replaced by the representative r of another variable
SetRoot ==
    /\ m_scope_lvl = 0 /\ ~m_inconsistent
    /\ \A x \in AllLits : m_roots[x] = x
    /\ \E l, r \in AllLits :
           /\ l > 0 /\ Var(l) # Var(r)
           /\ value(St, l) = "U" /\ value(St, r) = "U"
           /\ m_roots' = set_root(m_roots, l, r)
    /\ UNCHANGED solverVars
    /\ UNCHANGED <<m_coeffs, m_active_vars, m_bound, m_overflow,
                   m_mark, m_num_marks, debug_conflict, s_m_lemma, int_max,
                   m_lemma, m_conflict_lvl, m_num_cut, pc, ret>>

\* flush_roots()
FlushRoots ==
    /\ m_scope_lvl = 0 /\ ~m_inconsistent /\ m_qhead = Len(m_trail)
    /\ \E x \in AllLits : m_roots[x] # x
    /\ \E S \in Outcomes(LAMBDA u : flush_roots(StUB(u), m_roots)) : Install(S)
    /\ resolverUnchanged

NextSimp == AddAtLeast \/ AddPbGe \/ Imply \/ Propagate \/ SetRoot \/ FlushRoots

SpecSimp == Init /\ [][NextSimp]_vars

----------------------------------------------------------------------------
(* Evaluation of constraints under the current assignment *)

RECURSIVE weight_of(_, _, _, _)
weight_of(S, c, i, v) ==
    IF i >= c.size THEN 0
    ELSE (IF value(S, At(c.lits, i)) = v THEN At(c.coeffs, i) ELSE 0) + weight_of(S, c, i + 1, v)

\* eval(card const&) / eval(pb const&)
eval_body(S, c) ==
    LET trues == weight_of(S, c, 0, "T")
        undefs == weight_of(S, c, 0, "U")
    IN IF trues + undefs < c.k THEN "F"
       ELSE IF trues >= c.k THEN "T"
       ELSE "U"

\* eval(lbool, lbool)
eval2(a, b) == IF a = "U" \/ b = "U" THEN "U" ELSE IF a = b THEN "T" ELSE "F"

\* eval(constraint const&)
eval(S, c) == eval2(IF c.lit = null_literal THEN "T" ELSE value(S, c.lit), eval_body(S, c))

----------------------------------------------------------------------------
(* Properties of the propagation engine *)

Live == {ci \in 1..Len(m_constraints) : ~m_constraints[ci].removed}
LiveOf(tag) == {ci \in Live : m_constraints[ci].tag = tag}

\* the literal l has been taken from the trail and its watch list was run
Delivered(l) == \E i \in 1..m_qhead : m_trail[i] = l

ReifierTrue(c) == c.lit = null_literal \/ value(St, c.lit) = "T"
ReifierDelivered(c) == c.lit = null_literal \/ Delivered(c.lit)

\* the first min(k+1, size) positions of the card are on the watch lists
CardWatched(ci) ==
    LET c == m_constraints[ci]
    IN \A i \in 0..(Min(c.k + 1, c.size) - 1) : is_watched(St, At(c.lits, i), ci)

\* C3 as stated: I1, every non-removed card whose reifier is null or true has
\* its first min(k+1, size) positions on the watch lists, whatever branch
\* init_watch ended in
C3_I1_AsStated ==
    \A ci \in LiveOf("card") : ReifierTrue(m_constraints[ci]) => CardWatched(ci)

\* C3: every non-removed card whose reifier is null, or true and already
\* propagated, has its first min(k+1, size) positions on the watch lists,
\* provided the solver is not in conflict and the card does not already
\* evaluate to true (init_watch registers no watch in its 'k = size',
\* 'j = k' and conflict branches)
C3_I1_Watched ==
    \A ci \in LiveOf("card") :
        LET c == m_constraints[ci]
        IN (ReifierTrue(c) /\ ReifierDelivered(c) /\ ~m_inconsistent /\ eval(St, c) # "T")
               => CardWatched(ci)

\* a card in the scope of C3 on which add_assign replaced a falsified watch
C3_Witness ==
    \E ci \in LiveOf("card") :
        LET c == m_constraints[ci]
        IN /\ ReifierTrue(c) /\ ReifierDelivered(c) /\ ~m_inconsistent /\ eval(St, c) # "T"
           /\ c.k + 1 < c.size
           /\ \E i \in (c.k + 1)..(c.size - 1) :
                  /\ value(St, At(c.lits, i)) = "F"
                  /\ Delivered(Neg(At(c.lits, i)))
                  /\ ~is_watched(St, At(c.lits, i), ci)

\* exactly the positions [0, num_watch) of the pb are on the watch lists
PbWatchedExactly(ci) ==
    LET p == m_constraints[ci]
    IN \A i \in 0..(p.size - 1) : is_watched(St, At(p.lits, i), ci) <=> i < p.num_watch

\* sum of the weights of the watched positions
WatchedSum(p) == SumSeq(SubSeq(p.coeffs, 1, p.num_watch))

\* sum of the weights of the watched positions whose literal is not false
RECURSIVE NonFalseWatchedSum(_, _)
NonFalseWatchedSum(p, i) ==
    IF i >= p.num_watch THEN 0
    ELSE (IF value(St, At(p.lits, i)) # "F" THEN At(p.coeffs, i) ELSE 0)
         + NonFalseWatchedSum(p, i + 1)

InConflictOn(ci) == m_inconsistent /\ m_conflict = ci

\* C2 as stated: I2, for every non-removed pb whose reifier is null or true,
\* exactly the positions [0, num_watch) are watched, slack is the sum of the
\* weights of the watched literals that are not false, and slack >= k unless
\* the solver is in conflict on the pb
C2_I2_AsStated ==
    \A ci \in LiveOf("pb") :
        LET p == m_constraints[ci]
        IN ReifierTrue(p) =>
               /\ PbWatchedExactly(ci)
               /\ p.slack = NonFalseWatchedSum(p, 0)
               /\ (p.slack >= p.k \/ InConflictOn(ci))

\* C2: for every non-removed pb whose reifier is null, or true and already
\* propagated, exactly the positions [0, num_watch) are watched and, unless
\* the solver is in conflict on the pb, slack is the sum of the weights of
\* all watched positions (a watched literal that is already false but whose
\* add_assign has not run yet still counts) and slack >= k; slack is the sum
\* over the non-false watched literals once no watched literal is false
C2_I2_Slack ==
    \A ci \in LiveOf("pb") :
        LET p == m_constraints[ci]
        IN (ReifierTrue(p) /\ ReifierDelivered(p)) =>
               /\ PbWatchedExactly(ci)
               /\ InConflictOn(ci) \/ (p.slack = WatchedSum(p) /\ p.slack >= p.k)
               /\ (~InConflictOn(ci) /\ \A i \in 0..(p.num_watch - 1) : value(St, At(p.lits, i)) # "F")
                      => p.slack = NonFalseWatchedSum(p, 0)

\* a pb in the scope of C2 on which add_assign ran for a falsified watched
\* literal and pulled a replacement into the watched prefix
C2_Witness ==
    \E ci \in LiveOf("pb") :
        LET p == m_constraints[ci]
        IN /\ ReifierTrue(p) /\ ReifierDelivered(p) /\ ~m_inconsistent
           /\ 0 < p.num_watch /\ p.num_watch < p.size
           /\ \E i \in p.num_watch..(p.size - 1) :
                  /\ value(St, At(p.lits, i)) = "F"
                  /\ Delivered(Neg(At(p.lits, i)))
           /\ p.lits # Body(p.size)

\* C7 (pb part of I3): every non-removed pb has pairwise distinct body
\* variables, none of them the reifier's, and every coefficient <= k
C7_I3_WellFormedPb == \A ci \in LiveOf("pb") : well_formed(m_constraints[ci])

\* C8: every non-removed cardinality constraint has 1 <= k <= size
C8_CardBound ==
    \A ci \in LiveOf("card") : 1 <= m_constraints[ci].k /\ m_constraints[ci].k <= m_constraints[ci].size

----------------------------------------------------------------------------
(* The cardinality scenario x1 + x2 + x3 + x4 >= 3 *)

\* the unreified card x1+x2+x3+x4 >= 3 was built with all variables
\* unassigned, x1 = false is on the trail and its watch list has not run yet
ScenarioCard ==
    /\ Len(m_constraints) = 1
    /\ m_constraints[1].tag = "card" /\ m_constraints[1].lit = null_literal
    /\ m_constraints[1].k = 3 /\ m_constraints[1].size = 4
    /\ ~m_constraints[1].removed
ScenarioX1False == ScenarioCard /\ m_trail = <<0 - 1>> /\ m_qhead = 0

AllFourWatched == \A v \in 1..4 : Contains(m_watches[0 - v], 1)

\* C10 as stated: assigning x1 = false and running its watch list causes no propagation and leaves the
\* card watching {x1, x2, x3, x4}
C10_AsStated ==
    [][(ScenarioX1False /\ m_qhead' = 1) =>
           (/\ m_trail' = <<0 - 1>>
            /\ AllFourWatched')]_vars

\* C10: assigning x1 = false and running its watch list makes the card propagate x2, x3 and x4 to true
\* at once (three true literals are needed and only three are left), the
\* card keeps watching {x1, x2, x3, x4}; x2 is then true, so no later
\* assignment x2 = false exists
C10_Propagates ==
    [][(ScenarioX1False /\ m_qhead' = 1) =>
           (/\ \A v \in 2..4 : val'[v] = "T" /\ m_justification'[v] = 1
            /\ Len(m_trail') = 4
            /\ ~m_inconsistent'
            /\ AllFourWatched')]_vars

\* the state after the card has run for x1 = false
C10_Witness ==
    /\ ScenarioCard /\ m_qhead = 1 /\ Len(m_trail) = 4 /\ m_trail[1] = 0 - 1
    /\ \A v \in 2..4 : val[v] = "T" /\ m_justification[v] = 1
    /\ AllFourWatched

\* C9: I4, every non-removed constraint with a reifier has an entry on the
\* watch list of the reifier and on the watch list of its negation, after
\* add_constraint and after flush_roots replaced the reifier by its root
C9_I4_ReifierWatched ==
    \A ci \in Live :
        LET c == m_constraints[ci]
        IN c.lit # null_literal =>
               Contains(m_watches[c.lit], ci) /\ Contains(m_watches[Neg(c.lit)], ci)

\* flush_roots replaced the reifier of a constraint that is still present
C9_Witness ==
    \E ci \in Live :
        LET c == m_constraints[ci]
        IN /\ c.lit # null_literal
           /\ Var(c.lit) # num_vars
           /\ m_roots[num_vars] = c.lit \/ m_roots[num_vars] = Neg(c.lit)


----------------------------------------------------------------------------
(* The 0/1 assignments a solver state admits *)

Assignments == [1..num_vars -> {"T", "F"}]

\* a satisfies S: it extends the assigned values and every constraint and
\* clause that is present evaluates to true under it
Satisfies(S, a) ==
    /\ \A v \in DOMAIN S.val : S.val[v] \in {"U", a[v]}
    /\ \A ci \in 1..Len(S.cs) : S.cs[ci].removed \/ eval([S EXCEPT !.val = a], S.cs[ci]) = "T"
    /\ \A cl \in S.clauses : \E l \in cl : value([S EXCEPT !.val = a], l) = "T"

Models(S) == IF S.inc THEN {} ELSE {a \in Assignments : Satisfies(S, a)}

\* flush_roots hands constraint ci to recompile: after the substitution its
\* body has a repeated or complementary literal and not the reifier's variable
RecompileCase(ci) ==
    /\ ci \in Live
    /\ \/ (m_constraints[ci].lit # null_literal /\ root_var(m_roots, Var(m_constraints[ci].lit)))
       \/ \E i \in 1..m_constraints[ci].size : root_var(m_roots, Var(m_constraints[ci].lits[i]))
    /\ Bind(flush_roots_subst(St, m_roots, ci).cs[ci], LAMBDA c3 :
           /\ has_dup(c3)
           /\ \A i \in 1..c3.size : Var(c3.lits[i]) # Var(c3.lit))

\* C4: P3, when flush_roots recompiles a constraint whose body got duplicate
\* or complementary literals from the root substitution, the constraints,
\* clauses and units present afterwards have exactly the satisfying 0/1
\* assignments of the substituted constraint before recompile.
C4_P3_RecompileEquivalent ==
    [][(FlushRoots /\ Len(m_constraints) = 1 /\ RecompileCase(1))
        => Models(St') = Models(flush_roots_subst(St, m_roots, 1))]_vars

----------------------------------------------------------------------------
(* Conflict resolution: the current inequality Sum c_v * v >= m_bound over *)
(* the active variables, a negative c_v standing for |c_v| * ~v.           *)

ResVars == 3
MaxAbsCoeff == 2
MaxBound == 4
CutVars == 3
MaxCutCoeff == 6
MaxCutBound == 6

\* the resolver's fields as one record
Rs == [coeffs |-> m_coeffs, active |-> m_active_vars, bound |-> m_bound,
       overflow |-> m_overflow, lemma |-> m_lemma, conflict_lvl |-> m_conflict_lvl,
       num_cut |-> m_num_cut, mark |-> m_mark, num_marks |-> m_num_marks,
       debug_conflict |-> debug_conflict, s_lemma |-> s_m_lemma,
       int_max |-> int_max]

InstallR(R) ==
    /\ m_coeffs' = R.coeffs
    /\ m_active_vars' = R.active
    /\ m_bound' = R.bound
    /\ m_overflow' = R.overflow
    /\ m_lemma' = R.lemma
    /\ m_conflict_lvl' = R.conflict_lvl
    /\ m_num_cut' = R.num_cut
    /\ m_mark' = R.mark
    /\ m_num_marks' = R.num_marks
    /\ debug_conflict' = R.debug_conflict
    /\ s_m_lemma' = R.s_lemma
    /\ int_max' = R.int_max

\* get_coeff, get_abs_coeff; the bounds keep every value far inside int
get_coeff(R, v) == R.coeffs[v]
get_abs_coeff(R, v) == Abs(R.coeffs[v])

\* normalize_active_coeffs: the first occurrence of each variable with a
\* non-zero coefficient is kept
RECURSIVE normalize_from(_, _, _)
normalize_from(R, i, kept) ==
    IF i >= Len(R.active) THEN kept
    ELSE Bind(IF ~Contains(kept, At(R.active, i)) /\ get_coeff(R, At(R.active, i)) # 0
              THEN Append(kept, At(R.active, i)) ELSE kept, LAMBDA kept1 :
             normalize_from(R, i + 1, kept1))

normalize_active_coeffs(R) == [R EXCEPT !.active = normalize_from(R, 0, <<>>)]

\* u_gcd
RECURSIVE u_gcd(_, _)
u_gcd(a, b) == IF b = 0 THEN a ELSE u_gcd(b, a % b)

\* C++ division of a signed value by a positive one truncates toward zero
TruncDiv(a, g) == IF a < 0 THEN 0 - ((0 - a) \div g) ELSE a \div g

\* the loop of cut that saturates coefficients and accumulates their gcd; it
\* stops as soon as the gcd is 1
RECURSIVE cut_gcd(_, _, _)
cut_gcd(R, i, g) ==
    IF ~(g # 1 /\ i < Len(R.active)) THEN [R |-> R, g |-> g]
    ELSE Bind(At(R.active, i), LAMBDA v :
         Bind(get_abs_coeff(R, v), LAMBDA coeff :
             IF coeff = 0 THEN cut_gcd(R, i + 1, g)
             ELSE Bind(IF R.bound < coeff
                       THEN [R EXCEPT !.coeffs[v] = IF get_coeff(R, v) > 0 THEN R.bound
                                                    ELSE 0 - R.bound]
                       ELSE R, LAMBDA R1 :
                  Bind(Min(coeff, R.bound), LAMBDA c1 :
                      cut_gcd(R1, i + 1, IF g = 0 THEN c1 ELSE u_gcd(g, c1))))))

RECURSIVE cut_divide(_, _, _)
cut_divide(R, i, g) ==
    IF i >= Len(R.active) THEN R
    ELSE Bind([R EXCEPT !.coeffs[At(R.active, i)] = TruncDiv(R.coeffs[At(R.active, i)], g)],
              LAMBDA R1 : cut_divide(R1, i + 1, g))

cut_no_normalize(R) ==
    IF \E i \in 1..Len(R.active) : get_abs_coeff(R, R.active[i]) = 1 THEN R
    ELSE Bind(cut_gcd(R, 0, 0), LAMBDA st :
             IF st.g >= 2
             THEN Bind(cut_divide(st.R, 0, st.g), LAMBDA D :
                      [D EXCEPT !.bound = (D.bound + st.g - 1) \div st.g,
                                !.num_cut = D.num_cut + 1])
             ELSE st.R)

\* cut
cut(R) ==
    IF \E i \in 1..Len(R.active) : get_abs_coeff(R, R.active[i]) = 1 THEN R
    ELSE Bind(cut_gcd(R, 0, 0), LAMBDA st :
             IF st.g >= 2
             THEN Bind(cut_divide(normalize_active_coeffs(st.R), 0, st.g), LAMBDA D :
                      [D EXCEPT !.bound = (D.bound + st.g - 1) \div st.g,
                                !.num_cut = D.num_cut + 1])
             ELSE st.R)

\* the active-variable sequences drawn: every variable once, or one of them
\* entered a second time after its coefficient had returned to zero
ActiveSeqs(n) == {[i \in 1..n |-> i], [i \in 1..n |-> i] \o <<1>>}

InitCut ==
    /\ Install0(EmptySolver(CutVars))
    /\ m_roots = [l \in LitsOf(CutVars) |-> l]
    /\ m_coeffs \in [1..CutVars -> (0 - MaxCutCoeff)..MaxCutCoeff]
    /\ m_active_vars \in ActiveSeqs(CutVars)
    /\ m_bound \in 1..MaxCutBound
    /\ m_overflow = FALSE
    /\ m_mark = {}
    /\ m_num_marks = 0
    /\ debug_conflict = FALSE
    /\ s_m_lemma = <<>>
    /\ int_max = INT_MAX
    /\ m_lemma = <<>>
    /\ m_conflict_lvl = 0
    /\ m_num_cut = 0
    /\ pc = "resolvent"
    /\ ret = "none"

\* cut() on the current resolvent
Cut ==
    /\ pc = "resolvent"
    /\ \E R \in {cut(Rs)} : InstallR(R)
    /\ pc' = "cut"
    /\ UNCHANGED solverVars
    /\ UNCHANGED <<m_roots, ret>>

NextCut == Cut

SpecCut == InitCut /\ [][NextCut]_vars

\* the 0/1 assignments satisfying Sum c_v * v >= bound
IneqValue(coeffs, a) ==
    SumSeq([v \in 1..Len(coeffs) |->
               IF coeffs[v] > 0 THEN coeffs[v] * a[v] ELSE (0 - coeffs[v]) * (1 - a[v])])

IneqModels(coeffs, bound) ==
    {a \in [1..Len(coeffs) -> {0, 1}] : IneqValue(coeffs, a) >= bound}

\* a coefficient saturated to the bound
Saturated(c, bound) == IF c > bound THEN bound ELSE IF 0 - c > bound THEN 0 - bound ELSE c

HasUnitCoeff == \E v \in 1..Len(m_coeffs) : Abs(m_coeffs[v]) = 1

\* the gcd of the saturated non-zero coefficients
RECURSIVE GcdOf(_, _, _)
GcdOf(coeffs, bound, v) ==
    IF v > Len(coeffs) THEN 0
    ELSE u_gcd(GcdOf(coeffs, bound, v + 1), Abs(Saturated(coeffs[v], bound)))

\* C6 as stated: cut keeps the 0/1 models, changes nothing when there is a
\* unit coefficient, and otherwise leaves no coefficient above the bound it
\* started from.
C6_I6_AsStated ==
    [][(pc = "resolvent" /\ pc' = "cut") =>
        /\ IneqModels(m_coeffs', m_bound') = IneqModels(m_coeffs, m_bound)
        /\ HasUnitCoeff => (m_coeffs' = m_coeffs /\ m_bound' = m_bound)
        /\ ~HasUnitCoeff => \A v \in 1..Len(m_coeffs) : Abs(m_coeffs'[v]) <= m_bound]_vars

\* C6: I6, for a current inequality with bound B >= 1, the inequality after
\* cut has the same satisfying 0/1 assignments; cut changes nothing when some
\* coefficient has absolute value 1; when the gcd g of the coefficients
\* saturated to B is >= 2, every coefficient becomes its saturated value
\* divided by g and the bound becomes ceil(B/g); when that gcd is 1 the bound
\* is kept and each coefficient is either kept or saturated to B.
C6_I6_CutPreservesModels ==
    [][(pc = "resolvent" /\ pc' = "cut") =>
        /\ IneqModels(m_coeffs', m_bound') = IneqModels(m_coeffs, m_bound)
        /\ HasUnitCoeff => (m_coeffs' = m_coeffs /\ m_bound' = m_bound /\ m_num_cut' = m_num_cut)
        /\ (~HasUnitCoeff /\ GcdOf(m_coeffs, m_bound, 1) >= 2) =>
              /\ m_num_cut' = m_num_cut + 1
              /\ m_bound' * GcdOf(m_coeffs, m_bound, 1) >= m_bound
              /\ (m_bound' - 1) * GcdOf(m_coeffs, m_bound, 1) < m_bound
              /\ \A v \in 1..Len(m_coeffs) :
                    m_coeffs'[v] * GcdOf(m_coeffs, m_bound, 1) = Saturated(m_coeffs[v], m_bound)
        /\ (~HasUnitCoeff /\ GcdOf(m_coeffs, m_bound, 1) < 2) =>
              /\ m_num_cut' = m_num_cut /\ m_bound' = m_bound
              /\ \A v \in 1..Len(m_coeffs) :
                    m_coeffs'[v] \in {m_coeffs[v], Saturated(m_coeffs[v], m_bound)}]_vars

\* a cut that saturated a coefficient and divided by a gcd of at least 2
C6_Witness ==
    /\ pc = "cut" /\ m_num_cut = 1 /\ m_bound >= 2
    /\ \E v \in 1..Len(m_coeffs) : m_coeffs[v] = m_bound
    /\ \E v \in 1..Len(m_coeffs) : m_coeffs[v] < 0
    /\ Len(m_active_vars) = CutVars

----------------------------------------------------------------------------
(* The end of resolve_conflict: normalize_active_coeffs,                    *)
(* create_asserting_lemma, active2card, return.                            *)

\* max of lvl over the lemma literals from position 1 on
RECURSIVE lemma_max_lvl(_, _, _)
lemma_max_lvl(S, lemma, i) ==
    IF i >= Len(lemma) THEN 0
    ELSE Max(level(S, At(lemma, i)), lemma_max_lvl(S, lemma, i + 1))

\* the scan of create_asserting_lemma over the active variables; it stops
\* once the slack is negative
RECURSIVE lemma_scan(_, _, _, _)
lemma_scan(S, R, i, st) ==
    IF ~(0 <= st.slack /\ i < Len(R.active)) THEN st
    ELSE Bind(At(R.active, i), LAMBDA v :
         Bind(get_coeff(R, v), LAMBDA coeff :
             IF ~(coeff # 0 /\ S.val[v] # "U" /\ ((coeff < 0) = (S.val[v] = "T")))
             THEN lemma_scan(S, R, i + 1, st)
             ELSE Bind(IF S.val[v] = "T" THEN v ELSE 0 - v, LAMBDA lit :
                  Bind(IF S.lvl[v] = R.conflict_lvl
                       THEN IF st.lemma[1] = null_literal
                            THEN [st EXCEPT !.asserting_coeff = Abs(coeff),
                                            !.slack = st.slack - Abs(coeff),
                                            !.lemma[1] = Neg(lit)]
                            ELSE IF st.asserting_coeff < Abs(coeff)
                            THEN [st EXCEPT !.lemma[1] = Neg(lit),
                                            !.slack = st.slack - (Abs(coeff) - st.asserting_coeff),
                                            !.asserting_coeff = Abs(coeff)]
                            ELSE st
                       ELSE [st EXCEPT !.slack = st.slack - Abs(coeff),
                                       !.lemma = Append(st.lemma, Neg(lit))], LAMBDA st1 :
                      lemma_scan(S, R, i + 1, st1)))))

RECURSIVE sum_abs_coeffs(_, _)
sum_abs_coeffs(R, i) ==
    IF i >= Len(R.active) THEN 0
    ELSE get_abs_coeff(R, At(R.active, i)) + sum_abs_coeffs(R, i + 1)

\* a scan that files every falsified literal after position 0
RECURSIVE lemma_scan_no_level(_, _, _, _)
lemma_scan_no_level(S, R, i, st) ==
    IF ~(0 <= st.slack /\ i < Len(R.active)) THEN st
    ELSE Bind(At(R.active, i), LAMBDA v :
         Bind(get_coeff(R, v), LAMBDA coeff :
             IF ~(coeff # 0 /\ S.val[v] # "U" /\ ((coeff < 0) = (S.val[v] = "T")))
             THEN lemma_scan_no_level(S, R, i + 1, st)
             ELSE Bind(IF S.val[v] = "T" THEN v ELSE 0 - v, LAMBDA lit :
                  Bind(IF st.lemma[1] = null_literal /\ S.lvl[v] = R.conflict_lvl
                       THEN [st EXCEPT !.asserting_coeff = Abs(coeff),
                                       !.slack = st.slack - Abs(coeff),
                                       !.lemma[1] = Neg(lit)]
                       ELSE [st EXCEPT !.slack = st.slack - Abs(coeff),
                                       !.lemma = Append(st.lemma, Neg(lit))], LAMBDA st1 :
                      lemma_scan_no_level(S, R, i + 1, st1)))))

lemma_pass_skipping_nothing(S, R) ==
    lemma_scan_no_level(S, R, 0, [slack |-> sum_abs_coeffs(R, 0) - R.bound,
                                  lemma |-> <<null_literal>>, asserting_coeff |-> 0])

\* one pass of create_asserting_lemma, from adjust_conflict_level to the end
\* of the scan
lemma_pass(S, R) ==
    lemma_scan(S, R, 0, [slack |-> sum_abs_coeffs(R, 0) - R.bound,
                         lemma |-> <<null_literal>>, asserting_coeff |-> 0])

\* create_asserting_lemma: ok is its result, confl says set_conflict was called
RECURSIVE create_asserting_lemma(_, _)
create_asserting_lemma(S, R) ==
    Bind(lemma_pass(S, R), LAMBDA st :
        IF st.slack >= 0
        THEN [R |-> [R EXCEPT !.lemma = st.lemma], ok |-> FALSE, confl |-> FALSE]
        ELSE IF st.lemma[1] = null_literal
        THEN IF Len(st.lemma) = 1
             THEN [R |-> [R EXCEPT !.lemma = st.lemma], ok |-> FALSE, confl |-> TRUE]
             ELSE Bind([R EXCEPT !.lemma = st.lemma,
                                 !.conflict_lvl = lemma_max_lvl(S, st.lemma, 1)], LAMBDA R1 :
                      create_asserting_lemma(S, R1))
        ELSE [R |-> [R EXCEPT !.lemma = st.lemma], ok |-> TRUE, confl |-> FALSE])

\* std::sort with compare_wlit: weights descending (equal weights in the
\* order met)
RECURSIVE insert_wlit(_, _, _)
insert_wlit(s, x, i) ==
    IF i > Len(s) THEN Append(s, x)
    ELSE IF s[i][1] < x[1] THEN SubSeq(s, 1, i - 1) \o <<x>> \o SubSeq(s, i, Len(s))
    ELSE insert_wlit(s, x, i + 1)

RECURSIVE sorted_wlits(_, _, _)
sorted_wlits(R, i, acc) ==
    IF i >= Len(R.active) THEN acc
    ELSE Bind(At(R.active, i), LAMBDA v :
         Bind(insert_wlit(acc, <<get_abs_coeff(R, v),
                                 IF get_coeff(R, v) < 0 THEN 0 - v ELSE v>>, 1), LAMBDA acc1 :
             sorted_wlits(R, i + 1, acc1)))

\* the first loop of active2card: the number k of largest weights needed to
\* reach the bound, and the sum before the last of them
RECURSIVE card_prefix(_, _, _, _)
card_prefix(wl, bound, i, st) ==
    IF i > Len(wl) \/ st.sum >= bound THEN st
    ELSE card_prefix(wl, bound, i + 1,
                     [k |-> st.k + 1, sum0 |-> st.sum, sum |-> st.sum + wl[i][1]])

\* the second loop: the smallest weights are dropped while the rest still
\* needs k literals
RECURSIVE card_drop(_, _, _)
card_drop(wl, bound, sum0) ==
    IF wl = <<>> THEN wl
    ELSE IF wl[Len(wl)][1] + sum0 >= bound THEN wl
    ELSE card_drop(SubSeq(wl, 1, Len(wl) - 1), bound, sum0 + wl[Len(wl)][1])

\* s().num_diff_levels: the number of distinct levels among lits
num_diff_levels(S, lits) == Cardinality({level(S, lits[i]) : i \in 1..Len(lits)})

\* the end of active2card: when add_at_least has made a constraint, its glue
\* is the number of levels of the false literals
set_glue_of_new(S0, S1, lits) ==
    IF Len(S1.cs) > Len(S0.cs)
    THEN [S1 EXCEPT !.cs[Len(S1.cs)].glue =
                        num_diff_levels(S1, SelectSeq(lits, LAMBDA l : value(S1, l) = "F"))]
    ELSE S1

\* active2card with the active2constraint branch compiled in
active2card_pb_fallback(S, R) ==
    Bind(normalize_active_coeffs(R), LAMBDA N :
    Bind(sorted_wlits(N, 0, <<>>), LAMBDA wl :
    Bind(card_prefix(wl, N.bound, 1, [k |-> 0, sum0 |-> 0, sum |-> 0]), LAMBDA pf :
        IF pf.k = 1 THEN [S |-> S, R |-> N]
        ELSE Bind(card_drop(wl, N.bound, pf.sum0), LAMBDA wl1 :
                 IF N.overflow THEN [S |-> S, R |-> N]
                 ELSE IF Cardinality({i \in 1..Len(wl1) : value(S, wl1[i][2]) # "F"}) >= pf.k
                 THEN [S |-> add_pb_ge(S, null_literal, [i \in 1..Len(wl) |-> wl[i][1]],
                                       [i \in 1..Len(wl) |-> wl[i][2]], N.bound, TRUE),
                       R |-> N]
                 ELSE [S |-> set_glue_of_new(S,
                                 add_at_least(S, null_literal, [i \in 1..Len(wl1) |-> wl1[i][2]],
                                              pf.k, TRUE),
                                 [i \in 1..Len(wl1) |-> wl1[i][2]]),
                       R |-> N]))))

\* active2card asking for one literal more than the prefix holds
active2card_one_more(S, R) ==
    Bind(normalize_active_coeffs(R), LAMBDA N :
    Bind(sorted_wlits(N, 0, <<>>), LAMBDA wl :
    Bind(card_prefix(wl, N.bound, 1, [k |-> 0, sum0 |-> 0, sum |-> 0]), LAMBDA pf :
        IF pf.k = 1 THEN [S |-> S, R |-> N]
        ELSE Bind(card_drop(wl, N.bound, pf.sum0), LAMBDA wl1 :
                 IF N.overflow THEN [S |-> S, R |-> N]
                 ELSE IF Cardinality({i \in 1..Len(wl1) : value(S, wl1[i][2]) # "F"}) >= pf.k
                 THEN [S |-> S, R |-> N]
                 ELSE [S |-> set_glue_of_new(S,
                                 add_at_least(S, null_literal, [i \in 1..Len(wl1) |-> wl1[i][2]],
                                              pf.k + 1, TRUE),
                                 [i \in 1..Len(wl1) |-> wl1[i][2]]),
                       R |-> N]))))

\* active2card
active2card(S, R) ==
    Bind(normalize_active_coeffs(R), LAMBDA N :
    Bind(sorted_wlits(N, 0, <<>>), LAMBDA wl :
    Bind(card_prefix(wl, N.bound, 1, [k |-> 0, sum0 |-> 0, sum |-> 0]), LAMBDA pf :
        IF pf.k = 1 THEN [S |-> S, R |-> N]
        ELSE Bind(card_drop(wl, N.bound, pf.sum0), LAMBDA wl1 :
                 IF N.overflow THEN [S |-> S, R |-> N]
                 ELSE IF Cardinality({i \in 1..Len(wl1) : value(S, wl1[i][2]) # "F"}) >= pf.k
                 THEN [S |-> S, R |-> N]
                 ELSE [S |-> set_glue_of_new(S,
                                 add_at_least(S, null_literal, [i \in 1..Len(wl1) |-> wl1[i][2]],
                                              pf.k, TRUE),
                                 [i \in 1..Len(wl1) |-> wl1[i][2]]),
                       R |-> N]))))

\* the assignment at the conflict: per variable, unassigned or a value with
\* its level
VarStates(cl) == {<<"U", 0>>} \cup ({"T", "F"} \X (0..cl))

RECURSIVE TrailOf(_, _, _)
TrailOf(a, l, v) ==
    IF l > MaxLevel THEN <<>>
    ELSE IF v > Len(a) THEN TrailOf(a, l + 1, 1)
    ELSE (IF a[v][1] # "U" /\ a[v][2] = l THEN <<IF a[v][1] = "T" THEN v ELSE 0 - v>> ELSE <<>>)
         \o TrailOf(a, l, v + 1)

\* the solver in conflict at level cl under the assignment a
ConflictState(a, cl) ==
    [EmptySolver(Len(a)) EXCEPT !.val = [v \in 1..Len(a) |-> a[v][1]],
                                !.lvl = [v \in 1..Len(a) |-> a[v][2]],
                                !.trail = TrailOf(a, 0, 1),
                                !.qhead = Len(TrailOf(a, 0, 1)),
                                !.scope = cl,
                                !.inc = TRUE,
                                !.reinit_lim = [i \in 1..cl |-> 0]]

\* resolve_conflict after its resolution loop: some inequality over the
\* active variables, the conflict level still the level of the conflict
InitLemma ==
    /\ \E cl \in 1..MaxLevel : \E a \in [1..ResVars -> VarStates(cl)] :
           /\ Install0(ConflictState(a, cl))
           /\ m_conflict_lvl = cl
    /\ m_roots = [l \in LitsOf(ResVars) |-> l]
    /\ m_coeffs \in [1..ResVars -> (0 - MaxAbsCoeff)..MaxAbsCoeff]
    /\ m_active_vars \in ActiveSeqs(ResVars)
    /\ m_bound \in 1..MaxBound
    /\ m_overflow = FALSE
    /\ m_mark = {}
    /\ m_num_marks = 0
    /\ debug_conflict = FALSE
    /\ s_m_lemma = <<>>
    /\ int_max = INT_MAX
    /\ m_lemma = <<>>
    /\ m_num_cut = 0
    /\ pc = "resolved"
    /\ ret = "none"

\* no asserting lemma: bail_out, l_undef
LemmaBailOut ==
    /\ pc = "resolved"
    /\ \E L \in {create_asserting_lemma(St, normalize_active_coeffs(Rs))} :
           /\ ~L.ok
           /\ InstallR([L.R EXCEPT !.overflow = FALSE])
           /\ \E S \in {IF L.confl THEN core_set_conflict(St, 0, null_literal) ELSE St} :
                  Install(S)
    /\ pc' = "done"
    /\ ret' = "l_undef"
    /\ UNCHANGED m_roots

\* an asserting lemma: active2card, l_true
LemmaReturn ==
    /\ pc = "resolved"
    /\ \E L \in {create_asserting_lemma(St, normalize_active_coeffs(Rs))} :
           /\ L.ok
           /\ \E A \in {active2card(St, L.R)} :
                  /\ InstallR(A.R)
                  /\ Install(A.S)
                  /\ ret' = IF A.R.overflow THEN "l_undef" ELSE "l_true"
    /\ pc' = "done"
    /\ UNCHANGED m_roots

NextLemma == LemmaBailOut \/ LemmaReturn

SpecLemma == InitLemma /\ [][NextLemma]_vars

\* C1: whenever resolve_conflict returns l_true, every literal of m_lemma is
\* false under the current assignment, the literal at position 0 is at the
\* conflict level m_conflict_lvl and no other lemma literal is, also when
\* create_asserting_lemma lowered the conflict level and retried.
C1_AssertingLemma ==
    (pc = "done" /\ ret = "l_true") =>
        /\ Len(m_lemma) >= 1
        /\ \A i \in 1..Len(m_lemma) :
               m_lemma[i] # null_literal /\ value(St, m_lemma[i]) = "F"
        /\ \A i \in 1..Len(m_lemma) : (level(St, m_lemma[i]) = m_conflict_lvl) <=> (i = 1)

\* a lemma of several literals returned after the conflict level was lowered
C1_Witness ==
    /\ pc = "done" /\ ret = "l_true"
    /\ m_conflict_lvl < m_scope_lvl
    /\ Len(m_lemma) >= 2

----------------------------------------------------------------------------
(* simplify(): per-constraint simplification, use lists, unused            *)
(* definitions, pure literals, subsumption                                 *)

SubVars == 4

\* the loop of simplify(pb_base&) that swaps the assigned literals out
RECURSIVE simplify_strip(_, _, _, _)
simplify_strip(S, c, i, sz) ==
    IF i >= sz THEN [c EXCEPT !.size = sz]
    ELSE IF value(S, At(c.lits, i)) # "U"
    THEN Bind(cswap(c, i, sz - 1), LAMBDA c1 : simplify_strip(S, c1, i, sz - 1))
    ELSE simplify_strip(S, c, i + 1, sz)

RECURSIVE assign_undef(_, _, _)
assign_undef(S, lits, i) ==
    IF i > Len(lits) THEN S
    ELSE Bind(IF value(S, lits[i]) = "U" THEN core_assign(S, lits[i], 0) ELSE S, LAMBDA S1 :
             assign_undef(S1, lits, i + 1))

\* assert_unconstrained
assert_unconstrained(S, lit, lits) ==
    IF lit = null_literal THEN assign_undef(S, lits, 1)
    ELSE Bind({lits[i] : i \in {j \in 1..Len(lits) : value(S, lits[j]) = "U"}}, LAMBDA undef :
             [S EXCEPT !.clauses = S.clauses \cup {{Neg(lit), l} : l \in undef}
                                   \cup {{lit} \cup {Neg(l) : l \in undef}}])

\* the last branch of simplify(pb_base&): the assigned literals are removed
\* and k is lowered by the weight of the true ones
simplify_reduce(S, ci, true_val) ==
    Bind(clear_watch(S, ci), LAMBDA S1 :
    Bind(simplify_strip(S1, S1.cs[ci], 0, S1.cs[ci].size), LAMBDA c1 :
    Bind(set_k(c1, c1.k - true_val), LAMBDA c2 :
    Bind([S1 EXCEPT !.cs[ci] = c2], LAMBDA S2 :
        IF c2.k = 1 /\ c2.lit = null_literal
        THEN Bind(core_mk_clause(S2, literals(c2)), LAMBDA S3 :
                 [S |-> remove_constraint(S3, ci), change |-> FALSE])
        ELSE IF c2.lit = null_literal
        THEN [S |-> init_watch(S2, ci, TRUE).S, change |-> TRUE]
        ELSE [S |-> S2, change |-> TRUE]))))

\* simplify(pb_base&) after the reifier was looked at
simplify_body(S, ci, nullify) ==
    Bind(S.cs[ci], LAMBDA p :
    Bind(weight_of(S, p, 0, "T"), LAMBDA true_val :
    Bind(weight_of(S, p, 0, "U"), LAMBDA slack :
    Bind(Cardinality({i \in 1..p.size : value(S, p.lits[i]) = "F"}), LAMBDA num_false :
        IF p.k = 1 /\ p.lit = null_literal
        THEN Bind(core_mk_clause(S, literals(p)), LAMBDA S1 :
                 [S |-> remove_constraint(S1, ci), change |-> FALSE])
        ELSE IF true_val = 0 /\ num_false = 0
        THEN [S |-> IF nullify THEN init_watch(S, ci, TRUE).S ELSE S, change |-> FALSE]
        ELSE IF true_val >= p.k
        THEN Bind(IF p.lit # null_literal THEN core_assign_unit(S, p.lit) ELSE S, LAMBDA S1 :
                 [S |-> remove_constraint(S1, ci), change |-> FALSE])
        ELSE IF slack + true_val < p.k
        THEN Bind(IF p.lit # null_literal THEN core_assign_unit(S, Neg(p.lit))
                  ELSE core_set_conflict(S, 0, null_literal), LAMBDA S1 :
                 [S |-> remove_constraint(S1, ci), change |-> FALSE])
        ELSE IF slack + true_val = p.k
        THEN Bind(assert_unconstrained(S, p.lit, literals(p)), LAMBDA S1 :
                 [S |-> remove_constraint(S1, ci), change |-> FALSE])
        ELSE simplify_reduce(S, ci, true_val)))))

\* simplify(pb_base&)
simplify_pb_base(S, ci) ==
    IF S.cs[ci].lit # null_literal /\ value(S, S.cs[ci].lit) = "F"
    THEN [S |-> S, change |-> FALSE]
    ELSE IF S.cs[ci].lit # null_literal /\ value(S, S.cs[ci].lit) = "T"
    THEN Bind(nullify_tracking_literal(S, ci), LAMBDA S1 : simplify_body(S1, ci, TRUE))
    ELSE simplify_body(S, ci, FALSE)

\* the first loops of simplify(): simplify(constraint&) on every constraint
RECURSIVE simplify_each(_, _, _)
simplify_each(P, ci, sz) ==
    IF ci > sz THEN P
    ELSE IF ci \in P.gone THEN simplify_each(P, ci + 1, sz)
    ELSE Bind(simplify_pb_base(P.S, ci), LAMBDA r :
             simplify_each([P EXCEPT !.S = r.S, !.change = P.change \/ r.change], ci + 1, sz))

\* init_use_lists: the constraints of m_constraints that mention l, in their
\* order; a reified constraint counts for both polarities
InUse(c, l) ==
    \/ c.lit # null_literal /\ (l = c.lit \/ l = Neg(c.lit))
    \/ \E i \in 1..c.size : c.lits[i] = l \/ (c.lit # null_literal /\ c.lits[i] = Neg(l))

RECURSIVE use_list_from(_, _, _, _)
use_list_from(S, gone, l, ci) ==
    IF ci > Len(S.cs) THEN <<>>
    ELSE (IF ci \notin gone /\ ~S.cs[ci].learned /\ InUse(S.cs[ci], l) THEN <<ci>> ELSE <<>>)
         \o use_list_from(S, gone, l, ci + 1)

init_use_lists(S, gone) == [l \in DOMAIN S.wl |-> use_list_from(S, gone, l, 1)]

\* use_count: constraints and clauses using l; binary clauses are counted by
\* get_num_non_learned_bin
use_count(P, l) ==
    Len(P.use[l]) + Cardinality({cl \in P.clause_use : l \in cl})
get_num_non_learned_bin(P, l) ==
    Cardinality({cl \in P.S.clauses : Cardinality(cl) = 2 /\ l \in cl})

\* remove_unused_defs
RECURSIVE remove_unused_defs(_, _)
remove_unused_defs(P, ci) ==
    IF ci > Len(P.S.cs) THEN P
    ELSE Bind(P.S.cs[ci].lit, LAMBDA lit :
             IF /\ ci \notin P.gone /\ ~P.S.cs[ci].learned
                /\ lit # null_literal
                /\ use_count(P, lit) = 1 /\ use_count(P, Neg(lit)) = 1
                /\ get_num_non_learned_bin(P, lit) = 0
                /\ get_num_non_learned_bin(P, Neg(lit)) = 0
             THEN Bind([P EXCEPT !.S = remove_constraint(P.S, ci)], LAMBDA P1 :
                      remove_unused_defs(P1, ci + 1))
             ELSE remove_unused_defs(P, ci + 1))

\* elim_pure(literal)
elim_pure_lit(P, lit) ==
    /\ value(P.S, lit) = "U"
    /\ P.use[lit] # <<>>
    /\ use_count(P, Neg(lit)) = 0
    /\ get_num_non_learned_bin(P, Neg(lit)) = 0

\* elim_pure()
RECURSIVE elim_pure(_, _)
elim_pure(P, v) ==
    IF v > Len(P.S.val) THEN P
    ELSE IF P.S.val[v] # "U" \/ (P.use[v] = <<>> /\ P.use[0 - v] = <<>>) THEN elim_pure(P, v + 1)
    ELSE IF elim_pure_lit(P, v)
    THEN Bind([P EXCEPT !.S = core_assign(P.S, v, 0)], LAMBDA P1 : elim_pure(P1, v + 1))
    ELSE IF elim_pure_lit(P, 0 - v)
    THEN Bind([P EXCEPT !.S = core_assign(P.S, 0 - v, 0)], LAMBDA P1 : elim_pure(P1, v + 1))
    ELSE elim_pure(P, v + 1)

\* the literals of c1 marked by subsumption
Marks(c) == {c.lits[i] : i \in 1..c.size}

\* the counts of subsumes(card&, card&, ..) and subsumes(card&, clause&, ..)
\* over the literals of the candidate
Common(c1, lits) == Cardinality({l \in lits : l \in Marks(c1)})
Comp(c1, lits) == Cardinality({l \in lits : l \notin Marks(c1) /\ Neg(l) \in Marks(c1)})

\* subsumes(card& c1, card& c2, comp)
subsumes_card_card(c1, c2) ==
    /\ c2.lit = null_literal
    /\ (c1.size - Common(c1, Marks(c2)) - Comp(c1, Marks(c2))) + c2.k + Comp(c1, Marks(c2)) <= c1.k

\* subsumes(card& c1, clause& c2, comp)
subsumes_card_clause(c1, cl) ==
    /\ Comp(c1, cl) = 0
    /\ (c1.size - Common(c1, cl)) + 1 <= c1.k

\* the weight subsumption(pb&) stored for a literal of p1
WeightIn(p1, l) == SumSeq([i \in 1..p1.size |-> IF p1.lits[i] = l THEN p1.coeffs[i] ELSE 0])

\* subsumes(pb const& p1, pb_base const& p2)
subsumes_pb(p1, p2) ==
    /\ ~(p1.k < p2.k \/ p1.size > p2.size)
    /\ Cardinality({i \in 1..p2.size : p2.lits[i] \in Marks(p1)
                                        /\ WeightIn(p1, p2.lits[i]) <= p2.coeffs[i]}) = p1.size

\* a removal by subsumption: the subsumer and what it removed
Subsumed(c1, c2) == [by |-> c1, kind |-> "constraint", c |-> c2, cl |-> {}]
SubsumedClause(c1, cl) == [by |-> c1, kind |-> "clause", c |-> c1, cl |-> cl]

\* card_subsumption(c1, lit)
RECURSIVE card_subsumption(_, _, _)
card_subsumption(P, ci, todo) ==
    IF todo = <<>> THEN P
    ELSE Bind(Head(todo), LAMBDA cj :
             IF P.S.cs[cj].tag # "card" \/ cj = ci \/ P.S.cs[cj].removed
             THEN card_subsumption(P, ci, Tail(todo))
             ELSE IF subsumes_card_card(P.S.cs[ci], P.S.cs[cj])
                     /\ Comp(P.S.cs[ci], Marks(P.S.cs[cj])) = 0
             THEN Bind([P EXCEPT !.log = P.log \cup {Subsumed(P.S.cs[ci], P.S.cs[cj])},
                                 !.S = [remove_constraint(P.S, cj) EXCEPT !.cs[ci].learned = FALSE]],
                       LAMBDA P1 : card_subsumption(P1, ci, Tail(todo)))
             ELSE card_subsumption(P, ci, Tail(todo)))

\* clause_subsumption(c1, lit, removed_clauses)
clause_subsumption(P, ci, lit) ==
    Bind({cl \in P.clause_use : lit \in cl /\ subsumes_card_clause(P.S.cs[ci], cl)}, LAMBDA sub :
        IF sub = {} THEN P
        ELSE [P EXCEPT !.removed_clauses = P.removed_clauses \cup sub,
                       !.log = P.log \cup {SubsumedClause(P.S.cs[ci], cl) : cl \in sub},
                       !.S.cs[ci].learned = FALSE])

\* binary_subsumption(c1, lit): the binary clauses (lit \/ l2) with l2 marked
\* leave the watch list
binary_subsumption(P, ci, lit) ==
    IF P.S.cs[ci].k + 1 # P.S.cs[ci].size THEN P
    ELSE Bind({cl \in P.S.clauses : Cardinality(cl) = 2 /\ lit \in cl
                                    /\ \E l2 \in cl : l2 # lit /\ l2 \in Marks(P.S.cs[ci])},
              LAMBDA sub :
             IF sub = {} THEN P
             ELSE [P EXCEPT !.S.clauses = P.S.clauses \ sub,
                            !.log = P.log \cup {SubsumedClause(P.S.cs[ci], cl) : cl \in sub},
                            !.S.cs[ci].learned = FALSE])

\* subsumption(card& c1): the loop over the first min(size, k + 1) literals
RECURSIVE subsumption_card_from(_, _, _)
subsumption_card_from(P, ci, i) ==
    IF i >= Min(P.S.cs[ci].size, P.S.cs[ci].k + 1) THEN P
    ELSE Bind(At(P.S.cs[ci].lits, i), LAMBDA lit :
         Bind(card_subsumption(P, ci, P.use[lit]), LAMBDA P1 :
         Bind(clause_subsumption(P1, ci, lit), LAMBDA P2 :
         Bind(binary_subsumption(P2, ci, lit), LAMBDA P3 :
             subsumption_card_from(P3, ci, i + 1)))))

\* subsumption(card& c1); the clauses collected are removed at its end
subsumption_card(P, ci) ==
    IF P.S.cs[ci].removed \/ P.S.cs[ci].lit # null_literal THEN P
    ELSE Bind(subsumption_card_from(P, ci, 0), LAMBDA P1 :
             [P1 EXCEPT !.clause_use = P1.clause_use \ P1.removed_clauses])

\* subsumes(pb& p1, literal lit)
RECURSIVE subsumes_pb_lit(_, _, _)
subsumes_pb_lit(P, ci, todo) ==
    IF todo = <<>> THEN P
    ELSE Bind(Head(todo), LAMBDA cj :
             IF cj = ci \/ P.S.cs[cj].removed THEN subsumes_pb_lit(P, ci, Tail(todo))
             ELSE IF subsumes_pb(P.S.cs[ci], P.S.cs[cj])
             THEN Bind([P EXCEPT !.log = P.log \cup {Subsumed(P.S.cs[ci], P.S.cs[cj])},
                                 !.S = [remove_constraint(P.S, cj) EXCEPT !.cs[ci].learned = FALSE]],
                       LAMBDA P1 : subsumes_pb_lit(P1, ci, Tail(todo)))
             ELSE subsumes_pb_lit(P, ci, Tail(todo)))

RECURSIVE subsumption_pb_from(_, _, _)
subsumption_pb_from(P, ci, i) ==
    IF i >= P.S.cs[ci].num_watch THEN P
    ELSE Bind(subsumes_pb_lit(P, ci, P.use[At(P.S.cs[ci].lits, i)]), LAMBDA P1 :
             subsumption_pb_from(P1, ci, i + 1))

\* subsumption(pb& p1); m_weights holds p1's weights during the loop and is
\* cleared after it
subsumption_pb(P, ci) ==
    IF P.S.cs[ci].removed \/ P.S.cs[ci].lit # null_literal THEN P
    ELSE Bind(subsumption_pb_from(P, ci, 0), LAMBDA P1 :
             [P1 EXCEPT !.S.weights = [l \in DOMAIN P1.S.weights |->
                                          IF l \in Marks(P1.S.cs[ci]) THEN 0 ELSE P1.S.weights[l]]])

\* subsumption(constraint&) on every constraint
RECURSIVE subsumption_each(_, _)
subsumption_each(P, ci) ==
    IF ci > Len(P.S.cs) THEN P
    ELSE Bind(IF P.S.cs[ci].removed \/ P.S.cs[ci].k <= 1 THEN P
              ELSE IF P.S.cs[ci].tag = "card" THEN subsumption_card(P, ci)
              ELSE subsumption_pb(P, ci), LAMBDA P1 :
             subsumption_each(P1, ci + 1))

\* simplify(): the loop body is repeated while a constraint was reduced or
\* the trail grew; cleanup_clauses and cleanup_constraints end each round
RECURSIVE simplify_round(_, _, _)
simplify_round(S, gone, log) ==
    Bind(simplify_each([S |-> S, gone |-> gone, change |-> FALSE, log |-> log,
                        removed_clauses |-> {}, use |-> <<>>, clause_use |-> {}],
                       1, Len(S.cs)), LAMBDA P1 :
    Bind([P1 EXCEPT !.use = init_use_lists(P1.S, gone),
                    !.clause_use = {cl \in P1.S.clauses : Cardinality(cl) >= 3}], LAMBDA P2 :
    Bind(remove_unused_defs(P2, 1), LAMBDA P3 :
    Bind(elim_pure(P3, 1), LAMBDA P4 :
    Bind(subsumption_each(P4, 1), LAMBDA P5 :
    Bind([P5.S EXCEPT !.clauses = P5.S.clauses \ P5.removed_clauses], LAMBDA S6 :
        IF P5.change \/ Len(S.trail) < Len(S6.trail)
        THEN simplify_round(S6, {ci \in 1..Len(S6.cs) : S6.cs[ci].removed}, P5.log)
        ELSE [S |-> S6, log |-> P5.log]))))))

simplify(S) == simplify_round(S, {ci \in 1..Len(S.cs) : S.cs[ci].removed}, {})

\* a subsumer, a second constraint and a clause, as added to a new solver
CandBodies ==
    {<<1>>, <<2>>, <<0 - 2>>, <<3>>, <<1, 2>>, <<1, 0 - 2>>, <<1, 3>>, <<2, 3>>, <<0 - 2, 3>>,
     <<1, 2, 3>>, <<1, 0 - 2, 3>>}
ClauseLits == {1, 2, 0 - 2, 3, 4, 0 - 4}
CandClauses ==
    {{}} \cup {cl \in SUBSET ClauseLits :
                  /\ Cardinality(cl) \in {2, 3}
                  /\ \A l \in cl : Neg(l) \notin cl}

InitSubsume ==
    /\ \E n \in 2..(SubVars - 1) : \E a \in CoeffSeqs(n) : \E k \in 2..SumSeq(a) :
       \E S1 \in {add_pb_ge(EmptySolver(SubVars), null_literal, a, Body(n), k, FALSE)} :
       \E lit \in {null_literal, SubVars} : \E body \in CandBodies :
       \E b \in CoeffSeqs(Len(body)) : \E k2 \in 1..SumSeq(b) :
       \E S2 \in {add_pb_ge(S1, lit, b, body, k2, FALSE)} :
       \E cl \in CandClauses :
           /\ ~S2.ub_read
           /\ Install0([S2 EXCEPT !.clauses = IF cl = {} THEN S2.clauses
                                              ELSE S2.clauses \cup {cl}])
    /\ m_roots = [l \in LitsOf(SubVars) |-> l]
    /\ m_coeffs = [v \in 1..SubVars |-> 0]
    /\ m_active_vars = <<>>
    /\ m_bound = 0
    /\ m_overflow = FALSE
    /\ m_mark = {}
    /\ m_num_marks = 0
    /\ debug_conflict = FALSE
    /\ s_m_lemma = <<>>
    /\ int_max = INT_MAX
    /\ m_lemma = <<>>
    /\ m_conflict_lvl = 0
    /\ m_num_cut = 0
    /\ pc = "engine"
    /\ ret = "none"

\* simplify() at base level, after the core has propagated
Simplify ==
    /\ pc = "engine" /\ m_scope_lvl = 0 /\ ~m_inconsistent /\ m_qhead = Len(m_trail)
    /\ \E S \in Outcomes(LAMBDA u : simplify(StUB(u)).S) : Install(S)
    /\ pc' = "simplified"
    /\ UNCHANGED <<m_roots, m_coeffs, m_active_vars, m_bound, m_overflow,
                   m_mark, m_num_marks, debug_conflict, s_m_lemma, int_max,
                   m_lemma, m_conflict_lvl, m_num_cut, ret>>

NextSubsume == Propagate \/ Simplify

SpecSubsume == InitSubsume /\ [][NextSubsume]_vars

\* e.by alone implies what it removed, over all 0/1 assignments
Implied(e) ==
    \A a \in Assignments :
        eval([St EXCEPT !.val = a], e.by) = "T" =>
            IF e.kind = "clause" THEN \E l \in e.cl : value([St EXCEPT !.val = a], l) = "T"
            ELSE eval([St EXCEPT !.val = a], e.c) = "T"

\* C5: P4, every constraint or clause that the subsumption pass of simplify()
\* removes (card-by-card, card-by-clause, card-by-binary, pb-by-pb,
\* pb-by-card) is logically implied by its subsumer alone, also when the
\* candidate carries a reifying literal.
C5_P4_SubsumptionSound ==
    [][(pc = "engine" /\ pc' = "simplified") =>
        \A e \in simplify(St).log : Implied(e)]_vars
----------------------------------------------------------------------------
(* The engine on one pseudo-Boolean constraint over five variables, at     *)
(* base level: the weighted bodies of the watch-growth scenario             *)
(* 5x1+4x2+3x3+2x4+1x5 >= k; the literals are assigned and delivered in     *)
(* any order.                                                              *)

PbVars == 5

\* the weight vectors drawn: the scenario's, its reverse, and one with ties
PbWeightSeqs == {<<5, 4, 3, 2, 1>>, <<1, 2, 3, 4, 5>>, <<3, 3, 2, 2, 1>>}

InitPb == InitSolver(PbVars)

\* add_pb_ge at base level, without reifier, before any assignment
AddPb ==
    /\ m_constraints = <<>> /\ m_clauses = {} /\ m_scope_lvl = 0 /\ ~m_inconsistent
    /\ m_constraint_to_reinit_lim = <<>> /\ m_trail = <<>>
    /\ \E a \in PbWeightSeqs : \E k \in 2..SumSeq(a) :
       \E S \in Outcomes(LAMBDA u : add_pb_ge(StUB(u), null_literal, a, Body(Len(a)), k, FALSE)) :
           Install(S)
    /\ resolverUnchanged

NextPb == AddPb \/ Imply \/ Propagate

SpecPb == InitPb /\ [][NextPb]_vars

\* the pb 5x1+4x2+3x3+2x4+1x5 >= 7 is the only constraint
ScenarioPb ==
    /\ Len(m_constraints) = 1
    /\ m_constraints[1].tag = "pb" /\ m_constraints[1].lit = null_literal
    /\ m_constraints[1].k = 7 /\ m_constraints[1].size = 5
    /\ ~m_constraints[1].removed
    /\ \A v \in 1..5 : \E i \in 1..5 :
           m_constraints[1].lits[i] = v /\ m_constraints[1].coeffs[i] = 6 - v

\* the literals whose negation's watch list holds the constraint
WatchedLits(ci) == {l \in AllLits : Contains(m_watches[Neg(l)], ci)}

\* x1 = false is on the trail of the scenario and has not been delivered; the
\* constraint is as init_watch left it
ScenarioPbX1False ==
    /\ ScenarioPb /\ m_trail = <<0 - 1>> /\ m_qhead = 0
    /\ m_constraints[1].lits = Body(5) /\ WatchedLits(1) = {1, 2}

\* C11 as stated: init_watch watches exactly {5x1, 4x2} with slack 9; the
\* callback for x1 = false pulls only x3 into the watched set, leaves
\* slack = 7 and propagates no literal
C11_AsStated ==
    [][/\ (m_constraints = <<>> /\ ScenarioPb') =>
              (WatchedLits(1)' = {1, 2} /\ m_constraints'[1].slack = 9)
       /\ (ScenarioPbX1False /\ m_qhead' = 1) =>
              (/\ 3 \in WatchedLits(1)' /\ 4 \notin WatchedLits(1)' /\ 5 \notin WatchedLits(1)'
               /\ m_constraints'[1].slack = 7
               /\ m_trail' = <<0 - 1>>)]_vars

\* C11: for 5x1+4x2+3x3+2x4+1x5 >= 7 with all variables unassigned,
\* init_watch watches exactly {5x1, 4x2} with slack 9; the callback for
\* x1 = false pulls x3, x4 and x5 into the watched set (slack 4+3+2+1 = 10),
\* stops watching x1, and propagates x2 = true, justified by the constraint
\* (without x2 only 3+2+1 = 6 < 7 is left)
C11_WatchGrowth ==
    [][/\ (m_constraints = <<>> /\ ScenarioPb') =>
              (WatchedLits(1)' = {1, 2} /\ m_constraints'[1].slack = 9
               /\ m_constraints'[1].num_watch = 2)
       /\ (ScenarioPbX1False /\ m_qhead' = 1) =>
              (/\ WatchedLits(1)' = {2, 3, 4, 5}
               /\ m_constraints'[1].slack = 10 /\ m_constraints'[1].num_watch = 4
               /\ m_trail' = <<0 - 1, 2>> /\ m_justification'[2] = 1
               /\ ~m_inconsistent')]_vars

\* the scenario after the callback for x1 = false has run
C11_Witness ==
    /\ ScenarioPb /\ m_trail = <<0 - 1, 2>> /\ m_qhead = 1
    /\ m_constraints[1].slack = 10 /\ WatchedLits(1) = {2, 3, 4, 5}

----------------------------------------------------------------------------
(* Conflict detection of a watch-initialised pb *)

\* every watched position whose literal is false has had its callback run
FalseWatchedDelivered(p) ==
    \A i \in 0..(p.num_watch - 1) :
        value(St, At(p.lits, i)) = "F" => Delivered(Neg(At(p.lits, i)))

\* the total weight of the literals of the body that are not false
NonFalseWeight(p) == weight_of(St, p, 0, "T") + weight_of(St, p, 0, "U")

\* add_assign returned l_false for the delivered literal ~m_not_l of the
\* watched prefix
ConflictReported(ci) ==
    /\ InConflictOn(ci)
    /\ Delivered(m_not_l)
    /\ \E i \in 0..(m_constraints[ci].num_watch - 1) :
           At(m_constraints[ci].lits, i) = Neg(m_not_l)

\* C12: for an unreified, watch-initialised pb, once every falsified watched
\* literal has been delivered to add_assign (in any order), a conflict has
\* been reported on a delivered literal if and only if the total weight of
\* the non-false literals is below k
C12_ConflictIffBelowK ==
    \A ci \in LiveOf("pb") :
        LET p == m_constraints[ci]
        IN (p.lit = null_literal /\ FalseWatchedDelivered(p)) =>
               /\ InConflictOn(ci) <=> NonFalseWeight(p) < p.k
               /\ InConflictOn(ci) => ConflictReported(ci)

\* 5x1+4x2+3x3+2x4+1x5 >= 7 in conflict after x1 = false and x2 = false were
\* delivered: 3+2+1 = 6 < 7
C12_Witness ==
    /\ ScenarioPb /\ ConflictReported(1)
    /\ val[1] = "F" /\ val[2] = "F" /\ \A v \in 3..5 : val[v] # "F"
    /\ FalseWatchedDelivered(m_constraints[1])
    /\ NonFalseWeight(m_constraints[1]) = 6

----------------------------------------------------------------------------
(* Xor constraints: one asserted xor under decisions and propagation.      *)

XorVars == 3

InitXor == InitSolver(XorVars)

\* the bodies handed to add_xor: x1 .. xn, the first literal in either sign
XorBodies == {Body(n) : n \in 2..XorVars} \cup {[Body(n) EXCEPT ![1] = 0 - 1] : n \in 2..XorVars}

\* add_xor at base level, without a reifier
AddXor ==
    /\ m_constraints = <<>> /\ m_clauses = {} /\ m_scope_lvl = 0 /\ ~m_inconsistent
    /\ m_constraint_to_reinit_lim = <<>>
    /\ \E b \in XorBodies :
       \E S \in Outcomes(LAMBDA u : add_xor(StUB(u), null_literal, b, FALSE)) : Install(S)
    /\ resolverUnchanged

NextXor == AddXor \/ Decide \/ Imply \/ Propagate \/ Backjump

SpecXor == InitXor /\ [][NextXor]_vars

\* the xor x1 (+) x2 (+) x3 is constraint 1, asserted
ScenarioXor ==
    /\ Len(m_constraints) = 1
    /\ m_constraints[1].tag = "xor" /\ m_constraints[1].lit = null_literal
    /\ m_constraints[1].size = 3
    /\ {m_constraints[1].lits[i] : i \in 1..3} = {1, 2, 3}
    /\ ~m_constraints[1].removed

\* x1 = true has been delivered to the xor as add_xor left it (x1 traded its
\* place with x3, x2 is still watched in both polarities), x2 = true is next
ScenarioX1X2True ==
    /\ ScenarioXor /\ m_trail = <<1, 2>> /\ m_qhead = 1 /\ ~m_inconsistent
    /\ m_constraints[1].lits = <<3, 2, 1>>
    /\ Contains(m_watches[2], 1) /\ Contains(m_watches[0 - 2], 1)

\* C13 as stated: with x1 = true and then x2 = true the xor propagates
\* x3 = false
C13_AsStated ==
    [][(ScenarioX1X2True /\ m_qhead' = 2) => val'[3] = "F"]_vars

\* C13: with x1 = true and then x2 = true the asserted xor x1 (+) x2 (+) x3
\* propagates x3 = true (an odd number of its literals has to be true), with
\* the xor as the justification and without a conflict
C13_XorPropagates ==
    [][(ScenarioX1X2True /\ m_qhead' = 2) =>
           (/\ val'[3] = "T" /\ m_justification'[3] = 1
            /\ m_trail' = <<1, 2, 3>>
            /\ ~m_inconsistent')]_vars

\* the state after the xor has run for x2 = true
C13_Witness ==
    /\ ScenarioXor /\ m_qhead = 2 /\ m_trail = <<1, 2, 3>>
    /\ val[3] = "T" /\ m_justification[3] = 1 /\ ~m_inconsistent

----------------------------------------------------------------------------
(* resolve_conflict: the cutting-planes resolution loop.                    *)

\* INT_MIN and the test x > UINT_MAX, for UINT_MAX = 2 * INT_MAX + 1
INT_MIN(R) == (0 - R.int_max) - 1
above_UINT_MAX(R, x) == (x - R.int_max) - 1 > R.int_max

\* inc_bound
inc_bound(R, i) ==
    IF i < INT_MIN(R) \/ i > R.int_max THEN [R EXCEPT !.overflow = TRUE]
    ELSE IF R.bound + i < 0 THEN [R EXCEPT !.overflow = TRUE]
    ELSE IF above_UINT_MAX(R, R.bound + i) THEN [R EXCEPT !.overflow = TRUE]
    ELSE [R EXCEPT !.bound = R.bound + i]

\* inc_coeff
inc_coeff(R, l, offset) ==
    Bind(Var(l), LAMBDA v :
    Bind(R.coeffs[v], LAMBDA coeff0 :
    Bind(IF Sign(l) THEN 0 - offset ELSE offset, LAMBDA inc :
    Bind(inc + coeff0, LAMBDA coeff1 :
    Bind([R EXCEPT !.active = IF coeff0 = 0 THEN Append(R.active, v) ELSE R.active,
                   !.coeffs[v] = coeff1], LAMBDA R1 :
        IF coeff1 > R.int_max \/ coeff1 < INT_MIN(R) THEN [R1 EXCEPT !.overflow = TRUE]
        ELSE Bind(IF coeff0 > 0 /\ inc < 0 THEN inc_bound(R1, Max(0, coeff1) - coeff0)
                  ELSE IF coeff0 < 0 /\ inc > 0 THEN inc_bound(R1, coeff0 - Min(0, coeff1))
                  ELSE R1, LAMBDA R2 :
                 IF coeff1 > R2.bound THEN [R2 EXCEPT !.coeffs[v] = R2.bound]
                 ELSE IF coeff1 < 0 /\ 0 - coeff1 > R2.bound THEN [R2 EXCEPT !.coeffs[v] = R2.bound]
                 ELSE R2))))))

\* reset_coeffs
reset_coeffs(R) ==
    [R EXCEPT !.coeffs = [v \in DOMAIN R.coeffs |->
                              IF \E i \in 1..Len(R.active) : R.active[i] = v THEN 0
                              ELSE R.coeffs[v]],
              !.active = <<>>]

\* process_antecedent
process_antecedent(S, R, l, offset) ==
    Bind(Var(l), LAMBDA v :
        inc_coeff(IF S.lvl[v] > 0 /\ v \notin R.mark /\ S.lvl[v] = R.conflict_lvl
                  THEN [R EXCEPT !.mark = R.mark \cup {v}, !.num_marks = R.num_marks + 1]
                  ELSE R,
                  l, offset))

RECURSIVE process_antecedents(_, _, _, _, _)
process_antecedents(S, R, lits, i, offset) ==
    IF i >= Len(lits) THEN R
    ELSE process_antecedents(S, process_antecedent(S, R, At(lits, i), offset), lits, i + 1, offset)

RECURSIVE inc_coeffs(_, _, _, _, _)
inc_coeffs(R, lits, i, n, offset) ==
    IF i >= n THEN R
    ELSE inc_coeffs(inc_coeff(R, At(lits, i), offset), lits, i + 1, n, offset)

\* process_card
process_card(S, R, c, offset) ==
    Bind(process_antecedents(S, R, SubSeq(c.lits, c.k + 1, c.size), 0, offset), LAMBDA R1 :
    Bind(inc_coeffs(R1, c.lits, 0, c.k, offset), LAMBDA R2 :
        IF c.lit = null_literal THEN R2
        ELSE IF above_UINT_MAX(R, offset * c.k) THEN [R2 EXCEPT !.overflow = TRUE]
        ELSE process_antecedent(S, R2, Neg(c.lit), offset * c.k)))

\* get_antecedents(literal, card const&, literal_vector&)
get_antecedents_card(S, l, c) ==
    (IF c.lit # null_literal THEN <<c.lit>> ELSE <<>>)
        \o [i \in 1..(IF c.size > c.k THEN c.size - c.k ELSE 0) |-> Neg(c.lits[c.k + i])]

\* slack + w < k on unsigned: a sum below 0 has wrapped to a value above k
unsigned_lt(t, k) == 0 <= t /\ t < k

\* the weakening loops of get_antecedents(literal, pb const&, literal_vector&):
\* false literals are dropped while the rest still falls short of k
RECURSIVE pb_antecedents(_, _, _, _, _, _, _)
pb_antecedents(S, p, l, j, slack, skip_l, r) ==
    IF j >= p.size THEN r
    ELSE Bind(At(p.lits, j), LAMBDA lit :
         Bind(At(p.coeffs, j), LAMBDA w :
             IF skip_l /\ ~(lit # l /\ value(S, lit) = "F")
             THEN pb_antecedents(S, p, l, j + 1, slack, skip_l, r)
             ELSE IF unsigned_lt(slack + w, p.k)
             THEN pb_antecedents(S, p, l, j + 1, slack + w, skip_l, r)
             ELSE pb_antecedents(S, p, l, j + 1, slack, skip_l, Append(r, Neg(lit)))))

\* the position of l in p, or p.size
RECURSIVE pb_find(_, _, _)
pb_find(p, l, j) ==
    IF j >= p.size THEN j
    ELSE IF At(p.lits, j) = l THEN j
    ELSE pb_find(p, l, j + 1)

\* get_antecedents of a pb without the weakening: every false literal of
\* p other than l is a reason
get_antecedents_pb_unweakened(S, l, p) ==
    (IF p.lit # null_literal THEN <<p.lit>> ELSE <<>>)
        \o SelectSeq([i \in 1..p.size |-> Neg(p.lits[i])],
                     LAMBDA n : n # Neg(l) /\ value(S, n) = "T")

\* get_antecedents(literal, pb const&, literal_vector&)
get_antecedents_pb(S, l, p) ==
    Bind(IF p.lit # null_literal THEN <<p.lit>> ELSE <<>>, LAMBDA r0 :
        IF value(S, l) = "F"
        THEN pb_antecedents(S, p, l, 0,
                 SumSeq([i \in 1..p.size |-> IF value(S, p.lits[i]) # "F" THEN p.coeffs[i] ELSE 0]),
                 TRUE, r0)
        ELSE Bind(pb_find(p, l, 0), LAMBDA j0 :
             Bind(IF j0 < p.size THEN At(p.coeffs, j0) ELSE 0, LAMBDA coeff :
             Bind(IF j0 + 1 < p.num_watch THEN p.num_watch ELSE j0 + 1, LAMBDA j1 :
                 pb_antecedents(S, p, l, Max(j1 + 1, p.num_watch), p.slack - coeff, FALSE, r0)))))

\* get_antecedents(literal, constraint const&, literal_vector&), card and pb
get_antecedents(S, l, c) ==
    IF c.tag = "card" THEN get_antecedents_card(S, l, c) ELSE get_antecedents_pb(S, l, c)

RECURSIVE max_lvl(_, _, _)
max_lvl(S, lits, i) ==
    IF i >= Len(lits) THEN 0
    ELSE Max(level(S, At(lits, i)), max_lvl(S, lits, i + 1))

\* a justification is 0 (NONE), the index i > 0 of an extension constraint
\* (EXT_JUSTIFICATION), or below 0 for BINARY: the index 2 * var + sign of its
\* literal, negated
to_index(l) == 2 * Var(l) + (IF Sign(l) THEN 1 ELSE 0)
to_literal(i) == IF i % 2 = 1 THEN 0 - (i \div 2) ELSE i \div 2
mk_binary(l) == 0 - to_index(l)
is_binary(js) == js < 0
get_literal(js) == to_literal(0 - js)

\* s().get_max_lvl(consequent, js): the highest level among the consequent
\* and the antecedents the justification names for it
get_max_lvl(S, consequent, js) ==
    IF S.scope = 0 THEN 0
    ELSE Max(IF consequent # null_literal THEN level(S, consequent) ELSE 0,
             IF is_binary(js) THEN level(S, get_literal(js))
             ELSE IF js # 0 THEN max_lvl(S, get_antecedents(S, consequent, S.cs[js]), 0) ELSE 0)

\* one resolution step: the switch over the justification of the consequent
resolve_step(S, R, js, consequent, offset) ==
    IF js = 0 THEN inc_bound(R, offset)
    ELSE IF is_binary(js)
    THEN process_antecedent(S, inc_coeff(inc_bound(R, offset), consequent, offset),
                            get_literal(js), offset)
    ELSE Bind(S.cs[js], LAMBDA c :
        IF c.tag = "card"
        THEN process_card(S, inc_bound(R, offset * c.k), c, offset)
        ELSE Bind(get_antecedents_pb(S, consequent, c), LAMBDA ants :
             Bind(inc_coeff(inc_bound(R, offset), consequent, offset), LAMBDA R1 :
                 process_antecedents(S, [R1 EXCEPT !.lemma = ants],
                                     [i \in 1..Len(ants) |-> Neg(ants[i])], 0, offset))))

\* the scan of process_next_resolvent for a marked variable, downwards from
\* idx: its position, or -1 when position 0 is reached without one
RECURSIVE scan_marked(_, _, _)
scan_marked(S, R, idx) ==
    IF Var(At(S.trail, idx)) \in R.mark THEN idx
    ELSE IF idx = 0 THEN 0 - 1
    ELSE scan_marked(S, R, idx - 1)

unmark_trail(S, R) == [R EXCEPT !.mark = R.mark \ {Var(S.trail[i]) : i \in 1..Len(S.trail)}]

RECURSIVE resolve_conflict(_, _)

\* the loop of bail_out; idx is unsigned, so idx >= 0 always holds and idx - 1
\* below 0 is a position far past the end of the trail ("undefined")
RECURSIVE bail_out_loop(_, _, _, _)
bail_out_loop(S, R, idx, exit) ==
    IF R.num_marks = 0 THEN [S |-> S, R |-> R, r |-> "l_undef", exit |-> exit]
    ELSE IF idx < 0 THEN [S |-> S, R |-> R, r |-> "undefined", exit |-> exit]
    ELSE Bind(Var(At(S.trail, idx)), LAMBDA v :
         Bind(IF v \in R.mark
              THEN [R EXCEPT !.mark = R.mark \ {v}, !.num_marks = R.num_marks - 1]
              ELSE R, LAMBDA R1 :
             IF idx = 0 /\ ~R1.debug_conflict
             THEN Bind(resolve_conflict(S, [unmark_trail(S, R1) EXCEPT !.debug_conflict = TRUE,
                                                                       !.num_marks = 0]), LAMBDA I :
                      IF I.r = "undefined" THEN I ELSE bail_out_loop(I.S, I.R, idx - 1, exit))
             ELSE bail_out_loop(S, R1, idx - 1, exit)))

\* bail_out returning at once, the marks left as they are
bail_out_marks_left(S, R, idx, exit) ==
    [S |-> S, R |-> [R EXCEPT !.overflow = FALSE], r |-> "l_undef", exit |-> exit]

\* bail_out; exit names the goto that led here
bail_out(S, R, idx, exit) == bail_out_loop(S, [R EXCEPT !.overflow = FALSE], idx, exit)

\* the end of resolve_conflict, after the loop
resolve_tail(S, R, idx) ==
    Bind(create_asserting_lemma(S, normalize_active_coeffs(R)), LAMBDA L :
        IF ~L.ok THEN bail_out(S, L.R, idx, IF L.R.overflow THEN "overflow_no_lemma" ELSE "no_lemma")
        ELSE Bind(active2card(S, L.R), LAMBDA A :
            IF A.R.overflow THEN bail_out(A.S, A.R, idx, "overflow_card")
            ELSE [S |-> A.S,
                  R |-> [A.R EXCEPT !.s_lemma = A.R.lemma,
                                    !.mark = A.R.mark \cup {Var(A.R.lemma[i]) : i \in 2..Len(A.R.lemma)}],
                  r |-> "l_true", exit |-> "lemma"]))

\* the do-while loop of resolve_conflict
RECURSIVE resolve_loop(_, _, _, _, _, _)
resolve_loop(S, R, idx, offset, js, consequent) ==
    IF R.overflow \/ offset > 4096
    THEN bail_out(S, R, idx, IF R.overflow THEN "overflow" ELSE "offset")
    ELSE Bind(IF offset = 0 THEN R ELSE cut(resolve_step(S, R, js, consequent, offset)), LAMBDA R1 :
         IF idx < 0 THEN [S |-> S, R |-> R1, r |-> "undefined", exit |-> "loop"]
         ELSE Bind(scan_marked(S, R1, idx), LAMBDA i :
             IF i < 0 THEN bail_out(S, R1, 0, "unmarked")
             ELSE Bind(Var(At(S.trail, i)), LAMBDA v :
                  Bind(Min(get_abs_coeff(R1, v), R1.bound), LAMBDA offset1 :
                  Bind([R1 EXCEPT !.mark = R1.mark \ {v},
                                  !.num_marks = R1.num_marks - 1,
                                  !.coeffs[v] = IF get_abs_coeff(R1, v) > R1.bound
                                                THEN IF get_coeff(R1, v) < 0 THEN 0 - R1.bound
                                                     ELSE R1.bound
                                                ELSE R1.coeffs[v]], LAMBDA R2 :
                      IF R2.num_marks # 0
                      THEN resolve_loop(S, R2, i - 1, offset1, S.just[v], At(S.trail, i))
                      ELSE resolve_tail(S, R2, i - 1))))))

\* resolve_conflict
resolve_conflict(S, R) ==
    IF S.nprops = 0 THEN [S |-> S, R |-> R, r |-> "l_undef", exit |-> "early"]
    ELSE Bind([reset_coeffs(R) EXCEPT !.overflow = FALSE, !.num_marks = 0, !.bound = 0,
                                      !.conflict_lvl = get_max_lvl(S, S.not_l, S.confl)], LAMBDA R0 :
         Bind(IF S.not_l # null_literal THEN process_antecedent(S, R0, Neg(S.not_l), 1) ELSE R0,
              LAMBDA R1 :
             resolve_loop(S, R1, Len(S.trail) - 1, 1, S.confl,
                          IF S.not_l # null_literal THEN Neg(S.not_l) ELSE null_literal)))

----------------------------------------------------------------------------
(* Conflicts between up to two constraints, resolved by resolve_conflict.   *)

ConflictVars == 3
MaxConstraints == 2

InitConflict == InitSolver(ConflictVars)

MaxLearned == 1
MaxCuts == 2

\* bodies over distinct variables, the first two literals in either sign
SignedBodies ==
    UNION {{[i \in 1..n |-> IF i <= 2 THEN s[i] * i ELSE i] : s \in [1..2 -> {1, 0 - 1}]} :
           n \in 2..ConflictVars}
\* coefficient vectors: the first literal weighs up to MaxCoeff, the others 1
HeadCoeffs(n) == {[i \in 1..n |-> IF i = 1 THEN w ELSE 1] : w \in 1..MaxCoeff}

\* add_pb_ge at base level
AddConstraint ==
    /\ Len(m_constraints) < MaxConstraints /\ m_scope_lvl = 0 /\ ~m_inconsistent
    /\ m_constraint_to_reinit_lim = <<>> /\ ret = "none"
    /\ \A i \in 1..Len(m_constraints) : ~m_constraints[i].learned
    /\ \E b \in SignedBodies : \E a \in HeadCoeffs(Len(b)) : \E k \in 2..SumSeq(a) :
       \E S \in Outcomes(LAMBDA u : add_pb_ge(StUB(u), null_literal, a, b, k, FALSE)) : Install(S)
    /\ resolverUnchanged

\* the core calls resolve_conflict for a conflict above base level
ResolveConflict ==
    /\ m_inconsistent /\ ret = "none"
    /\ get_max_lvl(St, m_not_l, m_conflict) > 0
    /\ Len(m_constraints) < MaxConstraints + MaxLearned /\ m_num_cut < MaxCuts
    /\ \E X \in {resolve_conflict(St, Rs)} :
           /\ Install(X.S)
           /\ InstallR(X.R)
           /\ ret' = X.r
           /\ pc' = X.exit
    /\ UNCHANGED m_roots

\* the core backjumps after the conflict; after l_true it has reset the marks
\* of the lemma variables
BackjumpConflict ==
    /\ m_scope_lvl > 0 /\ (m_inconsistent => ret # "none") /\ ret # "undefined"
    /\ \E n \in 1..m_scope_lvl :
       \E S \in Outcomes(LAMBDA u : Bind(core_pop(StUB(u), n), LAMBDA P : pop_reinit(P, n))) :
           Install(S)
    /\ m_mark' = IF ret = "l_true" THEN m_mark \ {Var(s_m_lemma[i]) : i \in 1..Len(s_m_lemma)}
                 ELSE m_mark
    /\ ret' = "none"
    /\ pc' = "engine"
    /\ UNCHANGED <<m_roots, m_coeffs, m_active_vars, m_bound, m_overflow, m_num_marks,
                   debug_conflict, s_m_lemma, int_max, m_lemma, m_conflict_lvl, m_num_cut>>

NextConflict == AddConstraint \/ Decide \/ Propagate \/ ResolveConflict \/ BackjumpConflict

SpecConflict == InitConflict /\ [][NextConflict]_vars

----------------------------------------------------------------------------
(* The same conflicts on a build whose int is ScaledIntBits bits wide, so   *)
(* that the overflow latch is within reach of small coefficients.          *)

ScaledIntBits == 2

InitOverflow == InitSolverOn(ConflictVars, 2 ^ (ScaledIntBits - 1) - 1)

NextOverflow == AddConstraint \/ Decide \/ Propagate \/ ResolveConflict \/ BackjumpConflict

SpecOverflow == InitOverflow /\ [][NextOverflow]_vars

\* the pb 2 * x + y >= 2, x being the literal of variable 1 of sign sx
IsScenarioPb(c, sx) ==
    /\ c.tag = "pb" /\ c.lit = null_literal /\ c.k = 2 /\ c.size = 2 /\ ~c.removed
    /\ {<<c.coeffs[i], c.lits[i]>> : i \in 1..2} = {<<2, sx>>, <<1, 2>>}

\* 2x + y >= 2 and 2(~x) + y >= 2 are the two constraints added
ScenarioCut ==
    /\ Len(m_constraints) >= 2
    /\ \E i, j \in 1..2 : IsScenarioPb(m_constraints[i], 1) /\ IsScenarioPb(m_constraints[j], 0 - 1)

\* the scenario's decision: y = false is the one decision, made with the two
\* constraints in place, and propagation has assigned x after it
ScenarioDecision ==
    /\ ScenarioCut /\ Len(m_constraints) = 2
    /\ m_scope_lvl = 1 /\ Len(m_trail) = 2 /\ m_trail[1] = 0 - 2 /\ lvl[2] = 1
    /\ m_inconsistent

\* C14 as stated: with 2x + y >= 2 and 2(~x) + y >= 2 and the decision
\* y = false, resolve_conflict cancels the coefficients of x and ~x and the
\* lemma it hands over is the unit y
C14_AsStated ==
    (ScenarioDecision /\ ret # "none") =>
        /\ ret = "l_true"
        /\ m_coeffs[1] = 0
        /\ s_m_lemma = <<2>>

\* C14: with 2x + y >= 2 and 2(~x) + y >= 2 and the decision y = false, one
\* constraint forces its literal of x and the other one is in conflict;
\* resolve_conflict reads the conflicting pb as the clause get_antecedents
\* gives for it (the literal of x alone, y's weight being too small to
\* matter), reaches the end of its loop without resolving with the
\* constraint that forced x, and hands over the unit lemma made of the
\* conflicting constraint's literal of x, with coefficient 1 and bound 1;
\* y has coefficient 0 and is not in the lemma
C14_UnitLemmaOverX ==
    ScenarioDecision =>
        /\ Var(m_trail[2]) = 1 /\ lvl[1] = 1
        /\ m_justification[1] \in 1..2 /\ m_conflict = 3 - m_justification[1]
        /\ m_not_l = m_trail[2]
        /\ ret # "none" =>
            /\ ret = "l_true" /\ pc = "lemma"
            /\ s_m_lemma = <<Neg(m_trail[2])>>
            /\ m_coeffs = [v \in 1..ConflictVars |-> IF v = 1 THEN Neg(m_trail[2]) ELSE 0]
            /\ m_bound = 1 /\ m_active_vars = <<1>>
            /\ m_mark = {} /\ m_num_marks = 0

\* the scenario after resolve_conflict has returned
C14_Witness ==
    /\ ScenarioDecision /\ ret = "l_true" /\ m_trail = <<0 - 2, 0 - 1>>
    /\ m_justification[1] = 1 /\ m_conflict = 2 /\ s_m_lemma = <<1>>

\* the exits of resolve_conflict taken with m_overflow set
OverflowExits == {"overflow", "overflow_no_lemma", "overflow_card"}

----------------------------------------------------------------------------
(* negate() of the constraints the engine holds.                            *)

\* size, bound, reifier, literals and weights of a constraint
Shape(c) == <<c.size, c.k, c.lit, c.lits, c.coeffs>>

\* C16 (P1): for every card and pb the solver holds, negate() applied twice
\* restores size, k, reifier, the literal sequence and the weights
C16_NegateInvolution ==
    \A ci \in 1..Len(m_constraints) :
        m_constraints[ci].tag \in {"card", "pb"} =>
            /\ Shape(negate(negate(m_constraints[ci]))) = Shape(m_constraints[ci])
            /\ negate(m_constraints[ci]).lit = Neg(m_constraints[ci].lit)
            /\ negate(m_constraints[ci]).size = m_constraints[ci].size

\* init_watch has negated a reified pb whose weights are not all equal: its
\* reifier is assigned false and the constraint holds the negated reifier
C16_Witness ==
    \E ci \in 1..Len(m_constraints) :
        /\ m_constraints[ci].tag = "pb" /\ m_constraints[ci].lit < 0
        /\ value(St, m_constraints[ci].lit) = "T"
        /\ m_constraints[ci].size >= 2
        /\ m_constraints[ci].coeffs[1] # m_constraints[ci].coeffs[2]
        /\ Shape(negate(m_constraints[ci])) # Shape(m_constraints[ci])

----------------------------------------------------------------------------
(* simplify() called twice in a row.                                        *)

\* the constraints of a vector as the claim compares them: kind, reifier,
\* size, bound, literals and weights of the members, in order
Members(cs, learned) ==
    [i \in 1..Len(SelectSeq(cs, LAMBDA c : ~c.removed /\ c.learned = learned)) |->
        Bind(SelectSeq(cs, LAMBDA c : ~c.removed /\ c.learned = learned)[i], LAMBDA c :
            <<c.tag, c.lit, c.size, c.k, literals(c), SubSeq(c.coeffs, 1, c.size)>>)]

\* simplify() again, right after simplify() has returned
SimplifyAgain ==
    /\ pc = "simplified" /\ m_scope_lvl = 0 /\ ~m_inconsistent
    /\ \E S \in Outcomes(LAMBDA u : simplify(StUB(u)).S) : Install(S)
    /\ pc' = "simplified twice"
    /\ UNCHANGED <<m_roots, m_coeffs, m_active_vars, m_bound, m_overflow,
                   m_mark, m_num_marks, debug_conflict, s_m_lemma, int_max,
                   m_lemma, m_conflict_lvl, m_num_cut, ret>>

NextTwice == Propagate \/ Simplify \/ SimplifyAgain

SpecTwice == InitSubsume /\ [][NextTwice]_vars

\* C17 (P2): at base level a simplify() called right after a simplify()
\* leaves the problem and the learned constraint vectors as they were:
\* same members in the same order with the same sizes, bounds and literals
C17_SimplifyIdempotent ==
    [][(pc = "simplified" /\ pc' = "simplified twice") =>
        /\ Members(m_constraints', FALSE) = Members(m_constraints, FALSE)
        /\ Members(m_constraints', TRUE) = Members(m_constraints, TRUE)]_vars
----------------------------------------------------------------------------
(* The reinit queue of learned constraints.                                 *)

\* the solver after the core has undone n levels and pop(n) has run, before
\* pop_reinit
Popped(n) ==
    [core_pop(St, n) EXCEPT !.reinit_lim = SubSeq(m_constraint_to_reinit_lim, 1,
                                                  Len(m_constraint_to_reinit_lim) - n),
                            !.nprops = 0]

\* a step in which a learned constraint is added above base level: it joins
\* the reinit queue, no watch list is touched and nothing is assigned
AddedLearned ==
    (/\ Len(m_constraints') = Len(m_constraints) + 1
     /\ m_constraints'[Len(m_constraints')].learned
     /\ m_scope_lvl > 0) =>
        /\ m_constraint_to_reinit' = Append(m_constraint_to_reinit, Len(m_constraints'))
        /\ m_watches' = m_watches
        /\ m_trail' = m_trail /\ val' = val

\* the step leaves the solver as init_watch on the one queued constraint
\* leaves it, and the constraint stays queued exactly when init_watch
\* returned false above base level
Reinitialised(n) ==
    Bind(init_watch(Popped(n), m_constraint_to_reinit[1], TRUE), LAMBDA iw :
        /\ m_constraint_to_reinit' =
               (IF ~iw.r /\ m_scope_lvl' # 0 THEN m_constraint_to_reinit ELSE <<>>)
        /\ m_watches' = iw.S.wl /\ m_constraints' = iw.S.cs
        /\ m_trail' = iw.S.trail /\ val' = iw.S.val
        /\ m_inconsistent' = iw.S.inc)

\* a backjump with one constraint on the reinit queue
BackjumpQueued == m_scope_lvl' < m_scope_lvl /\ Len(m_constraint_to_reinit) = 1

\* C18: a learned constraint added above base level is queued and not
\* watch-initialised; a backjump leaves the solver as init_watch on the
\* queued constraint leaves it, and the constraint stays queued exactly
\* when that init_watch returned false and the solver is above base level
C18_ReinitLifecycle ==
    [][/\ AddedLearned
       /\ BackjumpQueued => Reinitialised(m_scope_lvl - m_scope_lvl')]_vars

\* a learned constraint was queued at level 2, the backjump to level 1
\* called init_watch, which propagated and returned false: the constraint is
\* still queued, with a literal it assigned on the trail
C18_Witness ==
    /\ pc = "engine" /\ m_scope_lvl = 1 /\ Len(m_constraint_to_reinit) = 1
    /\ m_constraints[m_constraint_to_reinit[1]].learned
    /\ \E v \in 1..ConflictVars : m_justification[v] = m_constraint_to_reinit[1]

\* the learned constraints that are members of the learned collection
LearnedMembers(cs) == {i \in 1..Len(cs) : cs[i].learned /\ ~cs[i].removed}

\* C19 as stated: after pop(n) the learned constraints created after the
\* push that is undone are gone; every learned constraint of these runs is
\* created by resolve_conflict above base level, so at base level none is
\* left
C19_AsStated ==
    m_scope_lvl = 0 => LearnedMembers(m_constraints) = {}

\* C19: pop(n) and pop_reinit discard nothing: the learned constraints
\* before a backjump are the learned constraints after it, whatever level
\* they were created at, with the same bound and the same literals
C19_PopKeepsLearned ==
    [][m_scope_lvl' < m_scope_lvl =>
        /\ Len(m_constraints') = Len(m_constraints)
        /\ LearnedMembers(m_constraints') = LearnedMembers(m_constraints)
        /\ \A i \in LearnedMembers(m_constraints) :
               /\ m_constraints'[i].k = m_constraints[i].k
               /\ m_constraints'[i].size = m_constraints[i].size
               /\ {m_constraints'[i].lits[j] : j \in 1..m_constraints'[i].size}
                      = {m_constraints[i].lits[j] : j \in 1..m_constraints[i].size}]_vars

\* back at base level after a conflict, with the learned constraint
\* resolve_conflict added above base level still a member: pop_reinit has
\* initialised it and it has assigned a literal
C19_Witness ==
    /\ m_scope_lvl = 0 /\ pc = "engine" /\ m_constraint_to_reinit = <<>>
    /\ \E i \in LearnedMembers(m_constraints) :
           \E v \in 1..ConflictVars : m_justification[v] = i /\ val[v] # "U"
----------------------------------------------------------------------------
(* gc() of the learned constraints.                                         *)

\* constraint_glue_psm_lt
constraint_glue_psm_lt(c1, c2) ==
    \/ c1.glue < c2.glue
    \/ /\ c1.glue = c2.glue
       /\ \/ c1.psm < c2.psm
          \/ c1.psm = c2.psm /\ c1.size < c2.size

\* update_psm: the literals of c that agree with the saved phase
update_psm(S, ci, phase) ==
    [S EXCEPT !.cs[ci].psm =
        IF S.cs[ci].tag = "xor" THEN 0
        ELSE Cardinality({i \in 1..S.cs[ci].size :
                 phase[Var(S.cs[ci].lits[i])]
                     = (IF Sign(S.cs[ci].lits[i]) THEN "NEG_PHASE" ELSE "POS_PHASE")})]

RECURSIVE update_psms(_, _, _)
update_psms(S, i, phase) ==
    IF i > Len(S.learned) THEN S
    ELSE update_psms(update_psm(S, S.learned[i], phase), i + 1, phase)

\* std::stable_sort of m_learned: x goes behind the elements that are not
\* greater than it
RECURSIVE insert_sorted(_, _, _)
insert_sorted(cs, s, x) ==
    IF s = <<>> THEN <<x>>
    ELSE IF constraint_glue_psm_lt(cs[x], cs[Head(s)]) THEN <<x>> \o s
    ELSE <<Head(s)>> \o insert_sorted(cs, Tail(s), x)

RECURSIVE stable_sort(_, _)
stable_sort(cs, s) ==
    IF s = <<>> THEN <<>>
    ELSE insert_sorted(cs, stable_sort(cs, SubSeq(s, 1, Len(s) - 1)), s[Len(s)])

\* the loop of gc_half over the upper half of m_learned
RECURSIVE gc_half_loop(_, _)
gc_half_loop(S, i) ==
    IF i >= Len(S.learned) THEN S
    ELSE gc_half_loop(IF ~Contains(S.reinit, At(S.learned, i))
                      THEN remove_constraint(S, At(S.learned, i)) ELSE S, i + 1)

\* gc_half: m_learned is cut to its lower half whatever the loop removed
gc_half(S) ==
    Bind(gc_half_loop(S, Len(S.learned) \div 2), LAMBDA S1 :
        [S1 EXCEPT !.learned = SubSeq(S1.learned, 1, Len(S1.learned) \div 2)])

\* cleanup_constraints(m_learned, true): removed members are deallocated
cleanup_learned(S) ==
    [S EXCEPT !.cs = [i \in 1..Len(S.cs) |->
                         IF Contains(S.learned, i) /\ S.cs[i].removed
                         THEN [S.cs[i] EXCEPT !.freed = TRUE] ELSE S.cs[i]],
              !.learned = SelectSeq(S.learned, LAMBDA i : ~S.cs[i].removed /\ S.cs[i].learned)]

\* m_constraints.size(): the constraints of the problem vector
problem_size(S) == Cardinality({i \in 1..Len(S.cs) : ~S.cs[i].learned /\ ~S.cs[i].freed})

\* gc
gc(S, phase) ==
    IF Len(S.learned) >= 2 * problem_size(S)
    THEN Bind(update_psms(S, 1, phase), LAMBDA S1 :
         Bind([S1 EXCEPT !.learned = stable_sort(S1.cs, S1.learned)], LAMBDA S2 :
             cleanup_learned(gc_half(S2))))
    ELSE S

GcVars == 3
MaxProblem == 1
MaxLemmas == 2

InitGc == InitSolver(GcVars)

\* the bodies of the constraints added
GcBodies == {<<1, 2, 3>>, <<0 - 1, 2>>}

\* add_at_least of a problem constraint, at base level, before the search
AddProblem ==
    /\ m_scope_lvl = 0 /\ ~m_inconsistent /\ m_trail = <<>> /\ m_learned = <<>>
    /\ problem_size(St) < MaxProblem
    /\ \E b \in GcBodies : \E k \in 2..Len(b) :
       \E S \in Outcomes(LAMBDA u : add_at_least(StUB(u), null_literal, b, k, FALSE)) : Install(S)
    /\ resolverUnchanged

\* a lemma is added the way active2card adds it: add_at_least with learned
\* set, then set_glue
AddLemma ==
    /\ ~m_inconsistent /\ m_qhead = Len(m_trail)
    /\ Len(m_constraints) < MaxProblem + MaxLemmas
    /\ Cardinality({i \in 1..Len(m_constraints) : m_constraints[i].learned}) < MaxLemmas
    /\ \E b \in GcBodies :
       \E S \in Outcomes(LAMBDA u :
              set_glue_of_new(StUB(u), add_at_least(StUB(u), null_literal, b, 2, TRUE), b)) :
           Install(S)
    /\ resolverUnchanged

\* the saved phases drawn: all positive, all negative
GcPhases == {[v \in 1..GcVars |-> p] : p \in {"POS_PHASE", "NEG_PHASE"}}

\* the core calls gc() between propagation and the next decision; phase is
\* the core's saved phase
Gc ==
    /\ ~m_inconsistent /\ m_qhead = Len(m_trail)
    /\ \E phase \in GcPhases :
       \E S \in {gc(St, phase)} : Install(S)
    /\ resolverUnchanged

NextGc == AddProblem \/ AddLemma \/ Decide \/ Propagate \/ Backjump \/ Gc

SpecGc == InitGc /\ [][NextGc]_vars

\* a step of gc() that changed m_learned
GcStep == Len(m_constraints') = Len(m_constraints) /\ m_learned' # m_learned

\* the trigger of gc()
GcTriggered == Len(m_learned) >= 2 * problem_size(St)

\* what is left of m_learned is in ascending (glue, psm, size) order, and
\* members with equal keys are in the order they had
GcSorted ==
    \A i, j \in 1..Len(m_learned') :
        i < j =>
            /\ ~constraint_glue_psm_lt(m_constraints'[m_learned'[j]], m_constraints'[m_learned'[i]])
            /\ ~constraint_glue_psm_lt(m_constraints'[m_learned'[i]], m_constraints'[m_learned'[j]])
                   => \E a, b \in 1..Len(m_learned) :
                          a < b /\ m_learned[a] = m_learned'[i] /\ m_learned[b] = m_learned'[j]

\* the constraints gc() removed were members that are not on the reinit queue
GcRemovedOffQueue ==
    \A i \in 1..Len(m_constraints) :
        (m_constraints'[i].removed /\ ~m_constraints[i].removed) =>
            /\ Contains(m_learned, i) /\ ~Contains(m_learned', i)
            /\ ~Contains(m_constraint_to_reinit, i)

\* the members on the reinit queue are still members, and not deallocated
GcKeepsQueued ==
    \A i \in 1..Len(m_constraints) :
        (Contains(m_learned, i) /\ Contains(m_constraint_to_reinit, i)) =>
            /\ Contains(m_learned', i)
            /\ ~m_constraints'[i].removed /\ ~m_constraints'[i].freed

\* C20 as stated: gc() does nothing unless |learned| >= 2 * |constraints|;
\* it stable-sorts learned by (glue, psm, size) and removes only constraints
\* of the upper half that are not on the reinit queue, so that every learned
\* constraint on the reinit queue is still a member of the learned
\* collection, and not deallocated, after gc()
C20_AsStated ==
    [][GcStep => (GcTriggered /\ GcSorted /\ GcRemovedOffQueue /\ GcKeepsQueued)]_vars

----------------------------------------------------------------------------
(* find_mutexes: at-most-one sets read off the cards with size = k + 1.    *)
(* literal_set is a set of literals; lits and slits are modelled as sets,  *)
(* each mutex as the sequence the loop over the card pushes.               *)

Range(s) == {s[i] : i \in 1..Len(s)}

\* the loop of find_mutexes over m_constraints from position i on; M is
\* [slits, mutexes, change]
RECURSIVE find_mutexes_from(_, _, _)
find_mutexes_from(S, i, M) ==
    IF i > Len(S.cs) THEN M
    ELSE Bind(S.cs[i], LAMBDA c :
         IF c.learned \/ c.freed \/ c.tag # "card" \/ c.size # c.k + 1
         THEN find_mutexes_from(S, i + 1, M)
         ELSE Bind(SelectSeq([j \in 1..c.size |-> Neg(c.lits[j])], LAMBDA l : l \in M.slits),
                   LAMBDA mux :
              IF Len(mux) <= 1 THEN find_mutexes_from(S, i + 1, M)
              ELSE find_mutexes_from(S, i + 1,
                       [slits |-> M.slits \ Range(mux),
                        mutexes |-> Append(M.mutexes, mux),
                        change |-> TRUE])))

\* find_mutexes(lits, mutexes): the literals left in lits and the mutexes
find_mutexes(S, lits) ==
    Bind(find_mutexes_from(S, 1, [slits |-> lits, mutexes |-> <<>>, change |-> FALSE]),
         LAMBDA M : [lits |-> IF M.change THEN M.slits ELSE lits, mutexes |-> M.mutexes])

MutexVars == 3
MaxMutexCards == 2

InitMutex == InitSolver(MutexVars)

\* bodies of two or three literals over distinct variables, in either sign
MutexBodies ==
    UNION {{[i \in 1..n |-> s[i] * i] : s \in [1..n -> {1, 0 - 1}]} : n \in 2..MutexVars}

\* add_at_least of a problem constraint at base level, reified or not
AddMutexCard ==
    /\ pc = "engine" /\ Len(m_constraints) + Cardinality(m_clauses) < MaxMutexCards
    /\ ~m_inconsistent
    /\ \E b \in MutexBodies : \E k \in 1..Len(b) :
       \E lit \in {null_literal} \cup {v \in 1..num_vars : v > Len(b) /\ value(St, v) = "U"} :
       \E S \in Outcomes(LAMBDA u : add_at_least(StUB(u), lit, b, k, FALSE)) : Install(S)
    /\ resolverUnchanged

\* the literal sets handed to find_mutexes
MutexInputs == SUBSET AllLits

\* the core calls find_mutexes with a set of literals
FindMutexes ==
    /\ pc = "engine" /\ ~m_inconsistent
    /\ \E lits \in MutexInputs :
           ret' = [lits_in |-> lits, out |-> find_mutexes(St, lits)]
    /\ pc' = "find_mutexes"
    /\ UNCHANGED <<solverVars, m_roots, resolverVars>>

NextMutex == AddMutexCard \/ FindMutexes

SpecMutex == InitMutex /\ [][NextMutex]_vars

MutexesOut == {ret.out.mutexes[i] : i \in 1..Len(ret.out.mutexes)}

\* every emitted mutex has at least two literals, all of them input literals,
\* and no literal is in two mutexes
MutexesDisjoint ==
    pc = "find_mutexes" =>
        /\ \A i \in 1..Len(ret.out.mutexes) :
               /\ Len(ret.out.mutexes[i]) >= 2
               /\ Cardinality(Range(ret.out.mutexes[i])) = Len(ret.out.mutexes[i])
               /\ Range(ret.out.mutexes[i]) \subseteq ret.lits_in
        /\ \A i, j \in 1..Len(ret.out.mutexes) :
               i # j => Range(ret.out.mutexes[i]) \cap Range(ret.out.mutexes[j]) = {}

\* the literals left in lits are the input literals that are in no mutex
MutexesRest ==
    pc = "find_mutexes" =>
        ret.out.lits = ret.lits_in \ UNION {Range(m) : m \in MutexesOut}

\* in every assignment satisfying the constraints at most one literal of
\* each mutex is true
MutexesImplied ==
    pc = "find_mutexes" =>
        \A a \in Models(St) : \A m \in MutexesOut :
            Cardinality({l \in Range(m) : value([St EXCEPT !.val = a], l) = "T"}) <= 1

\* the same for the states whose cards are all unreified
MutexesOfUnreifiedImplied ==
    (\A i \in 1..Len(m_constraints) : m_constraints[i].lit = null_literal) => MutexesImplied

\* C21: every mutex emitted by find_mutexes is an at-most-one set implied by
\* the problem constraints; the mutexes are pairwise disjoint subsets of the
\* input literals of size >= 2, and the literals left in lits are exactly the
\* input literals not placed in a mutex.
C21_AsStated == MutexesImplied /\ MutexesDisjoint /\ MutexesRest

----------------------------------------------------------------------------
(* The result of add_assign: one card, pb or xor under decisions,          *)
(* propagation and backjumps.                                              *)

NextAssign == AddAtLeast \/ AddPbGe \/ AddXor \/ Decide \/ Imply \/ Propagate \/ Backjump

SpecAssign == Init /\ [][NextAssign]_vars

\* the literal whose watch list the next Propagate step walks
NextLit == At(m_trail, m_qhead)

\* the next Propagate step consists of one call add_assign(c, ~NextLit) for
\* the constraint ci
CallsAddAssign(ci) ==
    /\ ~m_inconsistent /\ m_qhead < Len(m_trail)
    /\ m_watches[NextLit] = <<ci>>
    /\ m_constraints[ci].lit # null_literal =>
           (Var(NextLit) # Var(m_constraints[ci].lit) /\ value(St, m_constraints[ci].lit) = "T")

\* what that call returns: [S, r], one per outcome of a read past the end
AddAssignResults(ci) ==
    Outcomes(LAMBDA u : Bind(add_assign([StUB(u) EXCEPT !.qhead = m_qhead + 1], ci, Neg(NextLit)),
                             LAMBDA a : [r |-> a.r] @@ a.S))

\* the call assigned at least one literal
Propagated(A) == Len(A.trail) > Len(m_trail)

\* the step taken is the step of one of the results
StepOf(A) == m_trail' = A.trail /\ m_inconsistent' = A.inc /\ m_constraints' = A.cs

----------------------------------------------------------------------------
(* add_pb_ge and its result.  pb::update_max_sum adds the clipped           *)
(* coefficients in unsigned arithmetic and throws when the sum wraps; the  *)
(* width of unsigned is scaled down to UIntBits so that sums reach it.     *)

UIntBits == 2
UINT_MAX_scaled == 2 ^ UIntBits - 1

\* pb::update_max_sum: whether m_max_sum + m_wlits[i].first < m_max_sum at
\* some position from i on, the sum so far being sum
RECURSIVE update_max_sum_throws(_, _, _, _)
update_max_sum_throws(coeffs, k, i, sum) ==
    IF i > Len(coeffs) THEN FALSE
    ELSE IF (sum + Min(k, coeffs[i])) % (UINT_MAX_scaled + 1) < sum THEN TRUE
    ELSE update_max_sum_throws(coeffs, k, i + 1, (sum + Min(k, coeffs[i])) % (UINT_MAX_scaled + 1))

\* add_pb_ge with its result: r is "null" (return 0), "card" or "pb" (the
\* constraint returned) or "exception" (default_exception from pb::pb)
add_pb_ge_result(S, lit, coeffs, lits, k, learned) ==
    IF k = 0 /\ lit = null_literal THEN [S |-> S, r |-> "null"]
    ELSE IF (\A i \in 1..Len(coeffs) : coeffs[i] = 1) \/ k = 1
    THEN [S |-> add_at_least(S, lit, lits, k, learned),
          r |-> IF k = 1 /\ lit = null_literal THEN "null" ELSE "card"]
    ELSE IF update_max_sum_throws(coeffs, k, 1, 0) THEN [S |-> S, r |-> "exception"]
    ELSE [S |-> Bind(mk_pb(lit, coeffs, lits, k, learned), LAMBDA p : add_constraint(S, p)),
          r |-> "pb"]

\* add_pb_ge at base level on a solver without constraints; the arguments and
\* the result are kept in ret
AddPbGeCall ==
    /\ pc = "engine" /\ m_constraints = <<>> /\ m_clauses = {} /\ m_scope_lvl = 0
    /\ ~m_inconsistent
    /\ \E lit \in FreshReifiers : \E n \in BodySizes(lit) :
       \E a \in [1..n -> 1..UINT_MAX_scaled] : \E k \in 0..UINT_MAX_scaled :
       \E learned \in BOOLEAN :
       \E X \in Outcomes(LAMBDA u :
                Bind(add_pb_ge_result(StUB(u), lit, a, Body(n), k, learned), LAMBDA R :
                     [r |-> R.r] @@ R.S)) :
           /\ Install(X)
           /\ ret' = [r |-> X.r, lit |-> lit, coeffs |-> a, lits |-> Body(n), k |-> k,
                      learned |-> learned]
    /\ pc' = "add_pb_ge"
    /\ UNCHANGED <<m_roots, resolverVars>>

ImplyBefore == pc = "engine" /\ Imply

NextAddPb == ImplyBefore \/ AddPbGeCall

SpecAddPb == Init /\ [][NextAddPb]_vars

\* the terms of a constraint as pairs <<coefficient, literal>>
Terms(coeffs, lits) == {<<coeffs[i], lits[i]>> : i \in 1..Len(lits)}

AllUnits(a) == \A i \in 1..Len(a) : a[i] = 1

\* nothing was added: no constraint, no clause
NothingAdded == m_constraints = <<>> /\ m_clauses = {} /\ m_learned = <<>>

\* what add_at_least(lit, lits, k, learned) leaves on a solver without
\* constraints: the clause, or one card with these arguments
AddedAsAtLeast(lit, lits, k, learned) ==
    IF k = 1 /\ lit = null_literal
    THEN m_constraints = <<>> /\ m_clauses = {Range(lits)}
    ELSE /\ Len(m_constraints) = 1 /\ m_clauses = {}
         /\ m_constraints[1].tag = "card" /\ m_constraints[1].lit = lit
         /\ m_constraints[1].k = k /\ m_constraints[1].learned = learned
         /\ m_constraints[1].size = Len(lits) /\ Range(m_constraints[1].lits) = Range(lits)

\* one pb with the coefficients clipped to k
AddedAsPb(lit, coeffs, lits, k, learned) ==
    /\ Len(m_constraints) = 1 /\ m_clauses = {}
    /\ m_constraints[1].tag = "pb" /\ m_constraints[1].lit = lit
    /\ m_constraints[1].k = k /\ m_constraints[1].learned = learned
    /\ m_constraints[1].size = Len(lits)
    /\ Terms(m_constraints[1].coeffs, m_constraints[1].lits)
           = Terms([i \in 1..Len(lits) |-> Min(k, coeffs[i])], lits)

\* the three cases of the claim, the last one with or without the exception
AddPbGeCases(throws) ==
    pc = "add_pb_ge" =>
        IF ret.k = 0 /\ ret.lit = null_literal
        THEN ret.r = "null" /\ NothingAdded
        ELSE IF AllUnits(ret.coeffs) \/ ret.k = 1
        THEN /\ ret.r = (IF ret.k = 1 /\ ret.lit = null_literal THEN "null" ELSE "card")
             /\ AddedAsAtLeast(ret.lit, ret.lits, ret.k, ret.learned)
        ELSE IF throws
        THEN ret.r = "exception" /\ NothingAdded
        ELSE ret.r = "pb" /\ AddedAsPb(ret.lit, ret.coeffs, ret.lits, ret.k, ret.learned)

----------------------------------------------------------------------------
(* add_at_least and its result, on a solver that may hold a constraint     *)

\* add_at_least with its result: r is "null" (return 0) or "card"
add_at_least_result(S, lit, lits, k, learned) ==
    [S |-> add_at_least(S, lit, lits, k, learned),
     r |-> IF k = 1 /\ lit = null_literal THEN "null" ELSE "card"]

\* add_at_least at base level; the arguments and the result are kept in ret
AddAtLeastCall ==
    /\ pc = "engine" /\ Len(m_constraints) <= 1 /\ m_scope_lvl = 0 /\ ~m_inconsistent
    /\ \E lit \in FreshReifiers : \E n \in BodySizes(lit) : \E k \in 1..n :
       \E learned \in BOOLEAN :
       \E X \in Outcomes(LAMBDA u :
                Bind(add_at_least_result(StUB(u), lit, Body(n), k, learned), LAMBDA R :
                     [r |-> R.r] @@ R.S)) :
           /\ Install(X)
           /\ ret' = [r |-> X.r, lit |-> lit, lits |-> Body(n), k |-> k, learned |-> learned]
    /\ pc' = "add_at_least"
    /\ UNCHANGED <<m_roots, resolverVars>>

NextAddAtLeast == ImplyBefore \/ AddAtLeast \/ AddAtLeastCall

SpecAddAtLeast == Init /\ [][NextAddAtLeast]_vars

\* the steps of AddAtLeastCall
AddAtLeastStep == pc = "engine" /\ pc' = "add_at_least"

\* C24: add_at_least with k = 1 and a null reifier hands the clause
\* l1 or ... or ln to the SAT core, returns null, and leaves the constraints,
\* the learned and reinit collections and all extension watch lists unchanged.
C24_ClauseToCore ==
    [][(AddAtLeastStep /\ ret'.k = 1 /\ ret'.lit = null_literal) =>
          /\ m_clauses' = m_clauses \cup {Range(ret'.lits)}
          /\ ret'.r = "null"
          /\ UNCHANGED <<m_constraints, m_learned, m_constraint_to_reinit,
                         m_constraint_to_reinit_lim, m_watches>>]_vars

\* a clause was handed over while a card was present and watched
C24_Witness ==
    /\ pc = "add_at_least" /\ ret.k = 1 /\ ret.lit = null_literal /\ ret.r = "null"
    /\ Range(ret.lits) \in m_clauses
    /\ Len(m_constraints) = 1 /\ \E l \in AllLits : m_watches[l] # <<>>

----------------------------------------------------------------------------
(* Completeness of the propagation loop of add_assign(pb&, literal)        *)

\* a Propagate step that calls add_assign for the pb and ends without conflict
PbAssignStep ==
    /\ ~m_inconsistent /\ m_qhead < Len(m_trail) /\ m_qhead' = m_qhead + 1
    /\ Len(m_constraints) = 1 /\ m_constraints[1].tag = "pb"
    /\ m_constraints[1].lit = null_literal
    /\ Contains(m_watches[NextLit], 1)
    /\ ~m_inconsistent'

\* the watched positions of p whose literal is unassigned in S although the
\* watched sum is below k plus its weight
UnitsLeft(S, p) ==
    {i \in 0..(p.num_watch - 1) :
        value(S, At(p.lits, i)) = "U" /\ p.slack < p.k + At(p.coeffs, i)}

\* C25: after a non-conflicting add_assign(pb, a_lit), every watched term
\* that is still unassigned and whose weight w' satisfies slack < k + w'
\* (slack being the new watched sum) has been propagated true, whatever its
\* position in the watched prefix relative to a_lit
C25_AsStated ==
    [][PbAssignStep => UnitsLeft(St', m_constraints'[1]) = {}]_vars

\* the positions of p whose literal is unassigned in S although the literals
\* that are not false weigh less than k without it
ForcedLeft(S, p) ==
    {i \in 0..(p.size - 1) :
        /\ value(S, At(p.lits, i)) = "U"
        /\ weight_of(S, p, 0, "T") + weight_of(S, p, 0, "U") - At(p.coeffs, i) < p.k}

\* the same for the terms that the constraint forces: after a non-conflicting
\* add_assign no unassigned term is left without which the bound is out of reach
PbUnitsPropagated ==
    [][PbAssignStep => ForcedLeft(St', m_constraints'[1]) = {}]_vars

----------------------------------------------------------------------------
(* Explanations of the literals a pb has propagated                        *)

\* the literal of v that is true
TrueLit(v) == IF val[v] = "T" THEN v ELSE 0 - v

\* the literals the pb ci has propagated and that are still assigned
PropagatedBy(ci) == {TrueLit(v) : v \in {u \in 1..num_vars : val[u] # "U" /\ m_justification[u] = ci}}

\* validate_unit_propagation(pb const&, literal_vector const&, literal)
validate_unit_propagation(S, p, r, alit) ==
    /\ \A i \in 1..Len(r) : value(S, r[i]) = "T"
    /\ SumSeq([i \in 1..p.size |->
                  IF p.lits[i] # alit /\ ~Contains(r, Neg(p.lits[i])) THEN p.coeffs[i] ELSE 0]) < p.k

\* C26: for every literal l that a pb p propagated, whenever
\* get_antecedents(l, p, r) is called while l is still assigned, every literal
\* in r is true and the weights of p's terms other than l whose negation is
\* not in r sum to less than k
C26_AsStated ==
    \A ci \in LiveOf("pb") : \A l \in PropagatedBy(ci) :
        validate_unit_propagation(St, m_constraints[ci],
                                  get_antecedents_pb(St, l, m_constraints[ci]), l)

----------------------------------------------------------------------------
(* The resolver's arithmetic: inc_bound and inc_coeff as resolve_conflict  *)
(* calls them, from the state reset_coeffs and m_bound = 0 leave.          *)

MaxOffset == 2
MaxIncBound == 3
MaxActive == 4

\* inc_bound(offset) of a resolution step
IncBound ==
    /\ pc \in {"engine", "inc_coeff"}
    /\ \E i \in 1..MaxOffset :
           /\ m_bound + i <= MaxIncBound
           /\ InstallR(inc_bound(Rs, i))
    /\ pc' = "engine"
    /\ UNCHANGED <<solverVars, m_roots, ret>>

\* inc_coeff(l, offset) of a resolution step; the arguments and the
\* coefficient before the call are kept in ret
IncCoeff ==
    /\ pc \in {"engine", "inc_coeff"} /\ ~m_overflow /\ Len(m_active_vars) < MaxActive
    /\ \E l \in AllLits : \E offset \in 1..MaxOffset :
           /\ InstallR(inc_coeff(Rs, l, offset))
           /\ ret' = [l |-> l, offset |-> offset, coeff0 |-> m_coeffs[Var(l)]]
    /\ pc' = "inc_coeff"
    /\ UNCHANGED <<solverVars, m_roots>>

NextIncCoeff == IncBound \/ IncCoeff

SpecIncCoeff == Init /\ [][NextIncCoeff]_vars

\* the unclipped sum coeff0 + (l negated ? -offset : offset) of the last call
UnclippedSum == ret.coeff0 + (IF Sign(ret.l) THEN 0 - ret.offset ELSE ret.offset)

\* the coefficient stored by the last call
StoredCoeff == m_coeffs[Var(ret.l)]

\* sums that are not negative are stored clipped to the bound, negative sums
\* within the bound are stored as they are
IncCoeffInRange ==
    (pc = "inc_coeff" /\ ~m_overflow /\ UnclippedSum >= 0 - m_bound) =>
        StoredCoeff = Min(UnclippedSum, m_bound)

\* C27: after inc_coeff(l, offset) without overflow the stored coefficient of
\* l's variable has the sign of the unclipped sum
\* coeff0 + (l negated ? -offset : offset) and magnitude min(|sum|, bound); a
\* negative sum whose magnitude exceeds the bound is stored as -bound
C27_AsStated ==
    (pc = "inc_coeff" /\ ~m_overflow) =>
        StoredCoeff = (IF UnclippedSum < 0 THEN 0 - Min(Abs(UnclippedSum), m_bound)
                       ELSE Min(UnclippedSum, m_bound))

----------------------------------------------------------------------------
(* validate_lemma at the two places resolve_conflict asserts it.           *)

\* the loop of validate_lemma over m_active_vars from position i on; seen is
\* m_active_var_set and acc the running val
RECURSIVE lemma_val(_, _, _, _, _)
lemma_val(S, R, i, seen, acc) ==
    IF i >= Len(R.active) THEN acc
    ELSE Bind(At(R.active, i), LAMBDA v :
         Bind(get_coeff(R, v), LAMBDA coeff :
             IF v \in seen \/ coeff = 0 THEN lemma_val(S, R, i + 1, seen, acc)
             ELSE lemma_val(S, R, i + 1, seen \cup {v},
                            IF coeff < 0 /\ value(S, v) # "T" THEN acc - coeff
                            ELSE IF coeff > 0 /\ value(S, v) # "F" THEN acc + coeff
                            ELSE acc)))

\* validate_lemma
validate_lemma(S, R) == lemma_val(S, R, 0, {}, 0 - R.bound) < 0

\* the inequalities validate_lemma is asserted on while the loop of
\* resolve_conflict runs: after the switch of each resolution step, before
\* cut, and once more when the loop ends with no mark left
RECURSIVE asserted_lemmas(_, _, _, _, _, _)
asserted_lemmas(S, R, idx, offset, js, consequent) ==
    IF R.overflow \/ offset > 4096 THEN <<>>
    ELSE Bind(IF offset = 0 THEN R ELSE resolve_step(S, R, js, consequent, offset), LAMBDA R0 :
         Bind(IF offset = 0 THEN <<>>
              ELSE <<[at |-> "step", js |-> js, consequent |-> consequent, R |-> R0]>>, LAMBDA here :
         Bind(IF offset = 0 THEN R ELSE cut(R0), LAMBDA R1 :
             IF idx < 0 THEN here
             ELSE Bind(scan_marked(S, R1, idx), LAMBDA i :
                 IF i < 0 THEN here
                 ELSE Bind(Var(At(S.trail, i)), LAMBDA v :
                      Bind(Min(get_abs_coeff(R1, v), R1.bound), LAMBDA offset1 :
                      Bind([R1 EXCEPT !.mark = R1.mark \ {v},
                                      !.num_marks = R1.num_marks - 1,
                                      !.coeffs[v] = IF get_abs_coeff(R1, v) > R1.bound
                                                    THEN IF get_coeff(R1, v) < 0 THEN 0 - R1.bound
                                                         ELSE R1.bound
                                                    ELSE R1.coeffs[v]], LAMBDA R2 :
                          IF R2.num_marks # 0
                          THEN here \o asserted_lemmas(S, R2, i - 1, offset1, S.just[v],
                                                       At(S.trail, i))
                          ELSE here \o <<[at |-> "end", js |-> 0, consequent |-> null_literal,
                                          R |-> R2]>>)))))))

\* the assertions of one call of resolve_conflict, from its entry state
resolve_conflict_lemmas(S, R) ==
    IF S.nprops = 0 THEN <<>>
    ELSE Bind([reset_coeffs(R) EXCEPT !.overflow = FALSE, !.num_marks = 0, !.bound = 0,
                                      !.conflict_lvl = get_max_lvl(S, S.not_l, S.confl)], LAMBDA R0 :
         Bind(IF S.not_l # null_literal THEN process_antecedent(S, R0, Neg(S.not_l), 1) ELSE R0,
              LAMBDA R1 :
             asserted_lemmas(S, R1, Len(S.trail) - 1, 1, S.confl,
                             IF S.not_l # null_literal THEN Neg(S.not_l) ELSE null_literal)))

\* the core, propagating the trail literal at m_qhead, finds a binary clause
\* (not_l | l1) with l1 unassigned and assigns l1 with the justification
\* BINARY(not_l)
ImplyBinary ==
    /\ ~m_inconsistent /\ m_qhead < Len(m_trail) /\ ret = "none"
    /\ \E l1 \in AllLits :
           /\ value(St, l1) = "U"
           /\ \E S \in {core_assign(St, l1, mk_binary(Neg(At(m_trail, m_qhead))))} : Install(S)
    /\ resolverUnchanged

\* the core, propagating the trail literal at m_qhead, finds a binary clause
\* (not_l | l1) with l1 false: set_conflict(BINARY(not_l), ~l1); l1 was
\* falsified after that trail literal, or the clause had propagated before
ConflictBinary ==
    /\ ~m_inconsistent /\ m_qhead < Len(m_trail) /\ ret = "none"
    /\ \E j \in (m_qhead + 2)..Len(m_trail) :
       \E S \in {core_set_conflict(St, mk_binary(Neg(At(m_trail, m_qhead))), m_trail[j])} :
           Install(S)
    /\ resolverUnchanged

\* one extension constraint beside the clauses of the core
AddOneConstraint == m_constraints = <<>> /\ AddConstraint

NextClause ==
    AddOneConstraint \/ Decide \/ ImplyBinary \/ ConflictBinary \/ Propagate \/ ResolveConflict
        \/ BackjumpConflict

SpecClause == InitConflict /\ [][NextClause]_vars

\* the core is about to call resolve_conflict
ConflictToResolve ==
    m_inconsistent /\ ret = "none" /\ get_max_lvl(St, m_not_l, m_conflict) > 0

\* C28: throughout resolve_conflict, after every resolution step and again
\* when the trail walk finishes, the current inequality is violated by the
\* current assignment (validate_lemma holds)
C28_AsStated ==
    ConflictToResolve =>
        \A i \in 1..Len(resolve_conflict_lemmas(St, Rs)) :
            validate_lemma(St, resolve_conflict_lemmas(St, Rs)[i].R)

----------------------------------------------------------------------------
(* The cardinality constraint of active2card against the inequality it is  *)
(* made from.                                                              *)

\* the coefficients of the current inequality: those of the active variables
ActiveCoeffs(R) ==
    [v \in 1..Len(R.coeffs) |->
        IF \E i \in 1..Len(R.active) : R.active[i] = v THEN R.coeffs[v] ELSE 0]

\* the literals of c that are true under the 0/1 assignment a
TrueUnder(c, a) ==
    {i \in 1..c.size : IF c.lits[i] > 0 THEN a[c.lits[i]] = 1 ELSE a[0 - c.lits[i]] = 0}

\* resolve_conflict has returned and active2card has added a constraint
CardLearned ==
    pc = "done" /\ Len(m_constraints) = 1 /\ ~m_constraints[1].freed

\* C29: the cardinality constraint that active2card adds (the sorted weighted
\* literals left after trimming the low-weight tail, with the length of the
\* smallest descending-weight prefix reaching the bound as threshold) is
\* satisfied by every 0/1 assignment that satisfies the current inequality
C29_CardImplied ==
    CardLearned =>
        /\ m_constraints[1].tag = "card" /\ m_constraints[1].lit = null_literal
        /\ m_constraints[1].learned
        /\ \A a \in IneqModels(ActiveCoeffs(Rs), m_bound) :
               Cardinality(TrueUnder(m_constraints[1], a)) >= m_constraints[1].k

\* a card over fewer literals than the inequality has: the tail was trimmed,
\* and the inequality has models
C29_Witness ==
    /\ CardLearned
    /\ m_constraints[1].size < Cardinality({v \in 1..ResVars : ActiveCoeffs(Rs)[v] # 0})
    /\ IneqModels(ActiveCoeffs(Rs), m_bound) # {}

----------------------------------------------------------------------------
(* Unit propagation of a card once its falsified watches were delivered.   *)

\* the positions of c whose literal is not false
NonFalse(c) == {i \in 1..c.size : value(St, c.lits[i]) # "F"}

\* every literal of the card that is watched and false has been taken from
\* the trail, so add_assign has run for it
CardFalseWatchedDelivered(ci) ==
    \A i \in 1..m_constraints[ci].size :
        (is_watched(St, m_constraints[ci].lits[i], ci)
             /\ value(St, m_constraints[ci].lits[i]) = "F")
            => Delivered(Neg(m_constraints[ci].lits[i]))

\* the card has its watches: its reifier is null, or true and delivered
WatchInitialised(c) == ReifierTrue(c) /\ ReifierDelivered(c)

\* the literals the card has propagated
CardPropagated(ci) == {v \in 1..num_vars : val[v] # "U" /\ m_justification[v] = ci}

\* C30: card unit-propagation completeness. For a watch-initialised
\* card with null or true reifier, once every falsified watched literal has
\* been delivered to add_assign, the solver is in conflict exactly when fewer
\* than k literals are non-false; when exactly k are non-false, all of them
\* are true; no literal is propagated while more than k are non-false
C30_CardUnitPropagation ==
    \A ci \in LiveOf("card") :
        (WatchInitialised(m_constraints[ci]) /\ CardFalseWatchedDelivered(ci)) =>
            /\ m_inconsistent <=> Cardinality(NonFalse(m_constraints[ci])) < m_constraints[ci].k
            /\ (~m_inconsistent
                  /\ Cardinality(NonFalse(m_constraints[ci])) = m_constraints[ci].k)
                   => \A i \in NonFalse(m_constraints[ci]) :
                          value(St, m_constraints[ci].lits[i]) = "T"
            /\ CardPropagated(ci) # {}
                   => Cardinality(NonFalse(m_constraints[ci])) <= m_constraints[ci].k

\* a card with spare literals on which add_assign first replaced a falsified
\* watch and later, with exactly k literals left, propagated them
C30_Witness ==
    \E ci \in LiveOf("card") :
        /\ WatchInitialised(m_constraints[ci]) /\ CardFalseWatchedDelivered(ci)
        /\ ~m_inconsistent /\ m_scope_lvl > 0
        /\ m_constraints[ci].k + 1 < m_constraints[ci].size
        /\ Cardinality(NonFalse(m_constraints[ci])) = m_constraints[ci].k
        /\ CardPropagated(ci) # {}
        /\ \E i \in 1..m_constraints[ci].size :
               /\ value(St, m_constraints[ci].lits[i]) = "F"
               /\ Delivered(Neg(m_constraints[ci].lits[i]))
               /\ ~is_watched(St, m_constraints[ci].lits[i], ci)

----------------------------------------------------------------------------
(* Soundness of the literals a pb assigns.                                  *)

\* validate_unit_propagation(pb const&, literal): the reifier is true and the
\* non-false literals other than alit weigh less than k
validate_unit_propagation_lit(S, p, alit) ==
    /\ p.lit = null_literal \/ value(S, p.lit) = "T"
    /\ SumSeq([i \in 1..p.size |->
                  IF value(S, p.lits[i]) # "F" /\ p.lits[i] # alit THEN p.coeffs[i] ELSE 0]) < p.k

\* C31: pb propagation soundness. Every literal that init_watch(pb) or
\* add_assign(pb) has assigned is forced by the constraint: the weights of
\* all other non-false literals of p sum to less than k, and the reifier, if
\* any, is true
C31_AsStated ==
    \A ci \in LiveOf("pb") : \A l \in PropagatedBy(ci) :
        validate_unit_propagation_lit(St, m_constraints[ci], l)

\* the same for the pbs with k >= 1, whose weights are all positive
PbPropagationSoundForPositiveK ==
    \A ci \in LiveOf("pb") :
        (m_constraints[ci].k >= 1
            /\ \A i \in 1..m_constraints[ci].size : m_constraints[ci].coeffs[i] >= 1)
            => \A l \in PropagatedBy(ci) :
                   validate_unit_propagation_lit(St, m_constraints[ci], l)

----------------------------------------------------------------------------
(* What init_watch(pb&, bool) propagates.                                   *)

\* add_pb_ge creates a pb without reifier: add_constraint runs init_watch
InitWatchOnAdd ==
    /\ m_constraints = <<>> /\ Len(m_constraints') = 1
    /\ m_constraints'[1].tag = "pb" /\ m_constraints'[1].lit = null_literal

\* propagate is called for the reifier of the pb: init_watch runs
InitWatchOnReifier ==
    /\ Len(m_constraints) = 1 /\ m_constraints[1].tag = "pb"
    /\ m_constraints[1].lit # null_literal /\ ~m_constraints[1].removed
    /\ ~m_inconsistent /\ m_qhead < Len(m_trail) /\ m_qhead' = m_qhead + 1
    /\ Var(NextLit) = Var(m_constraints[1].lit)

\* init_watch on the pb has run in this step and returned without conflict
InitWatchPbStep == (InitWatchOnAdd \/ InitWatchOnReifier) /\ ~m_inconsistent'

\* the total weight of the literals of p that are not false in S
NonFalseWeightIn(S, p) == weight_of(S, p, 0, "T") + weight_of(S, p, 0, "U")

\* C32 as stated: after init_watch on a pb (reifier null or true) returns
\* without conflict, no unassigned literal of p is left unpropagated although
\* forced: every unassigned literal whose weight exceeds the total weight of
\* the non-false literals minus k has been assigned true, not only in the
\* tight case
C32_AsStated ==
    [][InitWatchPbStep => ForcedLeft(St', m_constraints'[1]) = {}]_vars

\* C32: init_watch on a pb that returns without conflict assigns literals in
\* the tight case only. When the non-false weights sum to exactly k every
\* non-false literal of p is true afterwards; otherwise the assignment is
\* left as it was, also when an unassigned literal is forced
C32_TightOnly ==
    [][InitWatchPbStep =>
           IF NonFalseWeightIn(St', m_constraints'[1]) = m_constraints'[1].k
           THEN \A i \in 1..m_constraints'[1].size :
                    value(St', m_constraints'[1].lits[i]) # "U"
           ELSE val' = val]_vars

\* init_watch has just run for the reifier, nothing else was delivered since,
\* and an unassigned literal of the pb is forced
C32_Witness ==
    /\ Len(m_constraints) = 1 /\ m_constraints[1].tag = "pb" /\ ~m_constraints[1].removed
    /\ m_constraints[1].lit # null_literal /\ value(St, m_constraints[1].lit) = "T"
    /\ ~m_inconsistent /\ m_qhead = Len(m_trail) /\ m_qhead >= 1
    /\ m_trail[m_qhead] = m_constraints[1].lit
    /\ m_constraints[1].num_watch >= 1
    /\ ForcedLeft(St, m_constraints[1]) # {}

----------------------------------------------------------------------------
(* The literal init_watch(card&, bool) reports on a conflict.               *)

\* propagate is called for the reifier of the card: init_watch runs
InitWatchCardOnReifier ==
    /\ Len(m_constraints) = 1 /\ m_constraints[1].tag = "card"
    /\ m_constraints[1].lit # null_literal /\ ~m_constraints[1].removed
    /\ ~m_inconsistent /\ m_qhead < Len(m_trail) /\ m_qhead' = m_qhead + 1
    /\ Var(NextLit) = Var(m_constraints[1].lit)

\* init_watch on the card has run in this step and has set a conflict
InitWatchCardConflict ==
    InitWatchCardOnReifier /\ m_inconsistent' /\ m_conflict' = 1

\* the literal a card handed to set_conflict: the core stores its negation
reported(S) == Neg(S.not_l)

\* the levels of the false literals of c at the positions in P (from 0)
FalseLevels(S, c, P) ==
    {level(S, At(c.lits, i)) : i \in {p \in P : p < c.size /\ value(S, At(c.lits, p)) = "F"}}

\* C33 as stated: when init_watch on a card detects a conflict (fewer than k
\* non-false literals), the literal it reports to set_conflict is false and
\* has the maximal assignment level among all false literals of the
\* constraint, including those between the non-false prefix and position k
C33_AsStated ==
    [][InitWatchCardConflict =>
           /\ value(St', reported(St')) = "F"
           /\ \A lv \in FalseLevels(St', m_constraints'[1], 0..(m_constraints'[1].size - 1)) :
                  lv <= level(St', reported(St'))]_vars

\* what the loop at positions [k, n) does give when k < n: the reported
\* literal is false and no literal at a position from k on has a higher level
ReportedMaxInTail ==
    [][(InitWatchCardConflict /\ m_constraints'[1].k < m_constraints'[1].size) =>
           /\ value(St', reported(St')) = "F"
           /\ reported(St') \in Range(m_constraints'[1].lits)
           /\ \A lv \in FalseLevels(St', m_constraints'[1],
                                    m_constraints'[1].k..(m_constraints'[1].size - 1)) :
                  lv <= level(St', reported(St'))]_vars

----------------------------------------------------------------------------
(* propagate for the reifier: init_watch normalises the stored reifier.     *)

\* propagate is called for a literal on the variable of the reifier of the
\* one constraint present
PropagateOnReifier ==
    /\ Len(m_constraints) = 1 /\ m_constraints[1].tag \in {"card", "pb"}
    /\ m_constraints[1].lit # null_literal /\ ~m_constraints[1].removed
    /\ ~m_inconsistent /\ m_qhead < Len(m_trail) /\ m_qhead' = m_qhead + 1
    /\ Var(NextLit) = Var(m_constraints[1].lit)

\* the weighted literals of c as a set
wlits(c) == {<<c.coeffs[i], c.lits[i]>> : i \in 1..c.size}

\* the body of c holds under the total assignment a
BodyHolds(c, a) == eval_body([St EXCEPT !.val = a], c) = "T"

\* d is the negation of c: the reifier and every literal negated, weights
\* kept, and the threshold that of card::negate or pb::negate
IsNegationOf(d, c) ==
    /\ d.lit = Neg(c.lit) /\ d.size = c.size
    /\ wlits(d) = {<<wl[1], Neg(wl[2])>> : wl \in wlits(c)}
    /\ d.k = (IF c.tag = "card" THEN c.size ELSE SumSeq(SubSeq(c.coeffs, 1, c.size))) - c.k + 1

\* C34: when propagate is called for a literal on the reifier's variable,
\* init_watch leaves the stored reifier literal true; the constraint is
\* negated exactly when the stored reifier was false (card: all literals
\* negated, k := n - k + 1; pb: all literals negated, k := sum of weights
\* - k + 1), the negated constraint is satisfied by exactly the assignments
\* that falsify the original body, and the watch on the reifier is kept
C34_ReifierNormalised ==
    [][PropagateOnReifier =>
           /\ value(St', m_constraints'[1].lit) = "T"
           /\ IF value(St, m_constraints[1].lit) = "F"
              THEN /\ IsNegationOf(m_constraints'[1], m_constraints[1])
                   /\ \A a \in Assignments :
                          BodyHolds(m_constraints'[1], a) <=> ~BodyHolds(m_constraints[1], a)
              ELSE /\ m_constraints'[1].lit = m_constraints[1].lit
                   /\ m_constraints'[1].k = m_constraints[1].k
                   /\ wlits(m_constraints'[1]) = wlits(m_constraints[1])
           /\ Contains(m_watches'[NextLit], 1)]_vars

\* the reifier of a pb was delivered false and the pb now stands negated
C34_Witness ==
    /\ Len(m_constraints) = 1 /\ m_constraints[1].tag = "pb" /\ ~m_constraints[1].removed
    /\ m_constraints[1].lit # null_literal /\ Sign(m_constraints[1].lit)
    /\ m_qhead >= 1 /\ m_trail[m_qhead] = m_constraints[1].lit
    /\ value(St, m_constraints[1].lit) = "T"
    /\ \E i, j \in 1..m_constraints[1].size : m_constraints[1].coeffs[i] # m_constraints[1].coeffs[j]
    /\ Contains(m_watches[m_constraints[1].lit], 1)

----------------------------------------------------------------------------
(* The watches of an xor.                                                   *)

\* the xor is the one constraint present
OneXor ==
    /\ Len(m_constraints) = 1 /\ m_constraints[1].tag = "xor" /\ ~m_constraints[1].removed

\* the literal at position i (from 0) of the xor is watched in both polarities
XorBothPolarities(S, i) ==
    /\ Contains(S.wl[At(S.cs[1].lits, i)], 1)
    /\ Contains(S.wl[Neg(At(S.cs[1].lits, i))], 1)

\* the variables at positions 0 and 1 of the xor
XorHead(c) == {Var(At(c.lits, 0)), Var(At(c.lits, 1))}

\* the variables that have the xor on a watch list
XorWatchedVars(S) == {v \in 1..num_vars : Contains(S.wl[v], 1) \/ Contains(S.wl[0 - v], 1)}

\* add_xor has run init_watch and found two unassigned literals
XorInitWatchStep ==
    /\ m_constraints = <<>> /\ Len(m_constraints') = 1 /\ m_constraints'[1].tag = "xor"
    /\ ~m_inconsistent'
    /\ value(St', At(m_constraints'[1].lits, 0)) = "U"
    /\ value(St', At(m_constraints'[1].lits, 1)) = "U"

\* add_assign has swapped a replacement into a watched slot
XorSwapStep ==
    /\ OneXor /\ ~m_inconsistent /\ m_qhead < Len(m_trail) /\ m_qhead' = m_qhead + 1
    /\ XorHead(m_constraints'[1]) # XorHead(m_constraints[1])

\* C35 as stated: positions 0 and 1 of an xor under propagation are watched
\* in both polarities: after init_watch with two unassigned literals and
\* after every add_assign that swaps a replacement literal into a watched
\* slot, the watch lists of both the literal and its negation contain the
\* constraint for each of positions 0 and 1, and no watch entry remains for
\* the literal swapped out
C35_AsStated ==
    [][(XorInitWatchStep \/ XorSwapStep) =>
           /\ XorBothPolarities(St', 0) /\ XorBothPolarities(St', 1)
           /\ XorWatchedVars(St') = XorHead(m_constraints'[1])]_vars

\* the part that init_watch does establish
XorInitWatchBoth ==
    [][XorInitWatchStep =>
           /\ XorBothPolarities(St', 0) /\ XorBothPolarities(St', 1)
           /\ XorWatchedVars(St') = XorHead(m_constraints'[1])]_vars

\* what the swap of add_assign does: the constraint is appended to the list of
\* the negation of the replacement only, and of the two lists of the literal
\* swapped out only the one being walked loses its entry
XorSwapOnePolarity ==
    [][XorSwapStep =>
           \E i \in {0, 1} :
               /\ Var(At(m_constraints'[1].lits, i)) \notin XorHead(m_constraints[1])
               /\ m_watches'[Neg(At(m_constraints'[1].lits, i))] =
                      Append(m_watches[Neg(At(m_constraints'[1].lits, i))], 1)
               /\ m_watches'[At(m_constraints'[1].lits, i)] = m_watches[At(m_constraints'[1].lits, i)]
               /\ m_watches'[Neg(NextLit)] = m_watches[Neg(NextLit)]
               /\ Len(m_watches'[NextLit]) < Len(m_watches[NextLit])]_vars

\* every literal of the xor is assigned and delivered, an even number of them
\* is true, and no conflict was raised
XorViolatedUnnoticed ==
    /\ OneXor /\ ~m_inconsistent /\ m_qhead = Len(m_trail)
    /\ \A i \in 1..m_constraints[1].size : value(St, m_constraints[1].lits[i]) # "U"
    /\ ~parity(St, m_constraints[1], 0)

----------------------------------------------------------------------------
(* active2card when the cardinality constraint would not be asserting.      *)

\* the literals and the threshold of the card active2card would make of the
\* inequality R: the sorted weighted literals after the trimming, and k
candidate_card(R) ==
    Bind(normalize_active_coeffs(R), LAMBDA N :
    Bind(sorted_wlits(N, 0, <<>>), LAMBDA wl :
    Bind(card_prefix(wl, N.bound, 1, [k |-> 0, sum0 |-> 0, sum |-> 0]), LAMBDA pf :
        [k |-> pf.k, wl |-> card_drop(wl, N.bound, pf.sum0)])))

\* the candidate card of R has at least two as threshold and at least that
\* many literals that are not false in S: it is not asserting
NotAssertingCard(S, R) ==
    /\ ~R.overflow
    /\ candidate_card(R).k # 1
    /\ Cardinality({i \in 1..Len(candidate_card(R).wl) :
                       value(S, candidate_card(R).wl[i][2]) # "F"}) >= candidate_card(R).k

\* resolve_conflict has an asserting lemma and calls active2card on an
\* inequality whose card is not asserting
ReturnNotAsserting ==
    /\ pc = "resolved" /\ pc' = "done"
    /\ create_asserting_lemma(St, normalize_active_coeffs(Rs)).ok
    /\ NotAssertingCard(St, create_asserting_lemma(St, normalize_active_coeffs(Rs)).R)

----------------------------------------------------------------------------
(* remove_constraint after propagation.                                     *)

\* simplification removes a constraint: at base level, propagation complete
RemoveConstraint ==
    /\ m_scope_lvl = 0 /\ ~m_inconsistent /\ m_qhead = Len(m_trail)
    /\ \E ci \in Live :
       \E S \in Outcomes(LAMBDA u : remove_constraint(StUB(u), ci)) : Install(S)
    /\ resolverUnchanged

NextRemove ==
    AddAtLeast \/ AddPbGe \/ AddXor \/ Decide \/ Imply \/ Propagate \/ Backjump \/ RemoveConstraint

SpecRemove == Init /\ [][NextRemove]_vars

\* remove_constraint has run on the constraint in this step
RemoveStep ==
    /\ Len(m_constraints) = 1 /\ ~m_constraints[1].removed
    /\ Len(m_constraints') = 1 /\ m_constraints'[1].removed

\* the literals whose watch list holds constraint ci
WatchedOn(S, ci) == {l \in AllLits : Contains(S.wl[l], ci)}

\* C37 as stated: after remove_constraint(c), for card, pb and xor alike and
\* whatever init_watch and add_assign calls preceded it, no watch list
\* contains an entry referring to c, neither for a body literal nor for the
\* reifier
C37_AsStated == [][RemoveStep => WatchedOn(St', 1) = {}]_vars

\* the same for cards and pbs only
RemoveLeavesNoWatchCardPb ==
    [][(RemoveStep /\ m_constraints[1].tag # "xor") => WatchedOn(St', 1) = {}]_vars

\* an xor is removed that has an entry on a list of a literal which is not at
\* position 0 or 1
StaleXorEntry ==
    /\ Len(m_constraints) = 1 /\ m_constraints[1].tag = "xor" /\ m_constraints[1].removed
    /\ WatchedOn(St, 1) # {}

----------------------------------------------------------------------------
(* Root splitting against the reified constraint it replaces.               *)

\* flush_roots hands constraint ci to split_root: after the substitution the
\* variable of its reifier occurs in its body
SplitCase(ci) ==
    /\ ci \in Live
    /\ \/ (m_constraints[ci].lit # null_literal /\ root_var(m_roots, Var(m_constraints[ci].lit)))
       \/ \E i \in 1..m_constraints[ci].size : root_var(m_roots, Var(m_constraints[ci].lits[i]))
    /\ Bind(flush_roots_subst(St, m_roots, ci).cs[ci], LAMBDA c3 :
           \E i \in 1..c3.size : Var(c3.lits[i]) = Var(c3.lit))

\* C38: when flush_roots finds the reifier's variable inside the body of a
\* reified card or pb, the unreified constraints added by split_root(c);
\* c.negate(); split_root(c) have together exactly the satisfying assignments
\* of the substituted reified constraint x <-> (body >= k), and the original
\* is removed
C38_AsStated ==
    [][(FlushRoots /\ Len(m_constraints) = 1 /\ SplitCase(1))
        => /\ Models(St') = Models(flush_roots_subst(St, m_roots, 1))
           /\ m_constraints'[1].removed]_vars

----------------------------------------------------------------------------
(* The loop of simplify(), one round at a time.                             *)

MaxRounds == 6

\* a loop condition that also repeats when the trail is as long as before
simplify_again_same_trail(change, trail_sz, init_trail_size) ==
    change \/ trail_sz <= init_trail_size

\* the condition of the do-while loop of simplify()
simplify_again(change, trail_sz, init_trail_size) ==
    change \/ trail_sz < init_trail_size

\* the body of the do-while loop of simplify(), once: the solver after
\* cleanup_clauses and cleanup_constraints, and whether the loop repeats
simplify_once(S) ==
    Bind({ci \in 1..Len(S.cs) : S.cs[ci].removed}, LAMBDA gone :
    Bind(simplify_each([S |-> S, gone |-> gone, change |-> FALSE, log |-> {},
                        removed_clauses |-> {}, use |-> <<>>, clause_use |-> {}],
                       1, Len(S.cs)), LAMBDA P1 :
    Bind([P1 EXCEPT !.use = init_use_lists(P1.S, gone),
                    !.clause_use = {cl \in P1.S.clauses : Cardinality(cl) >= 3}], LAMBDA P2 :
    Bind(remove_unused_defs(P2, 1), LAMBDA P3 :
    Bind(elim_pure(P3, 1), LAMBDA P4 :
    Bind(subsumption_each(P4, 1), LAMBDA P5 :
    Bind([P5.S EXCEPT !.clauses = P5.S.clauses \ P5.removed_clauses], LAMBDA S6 :
        [S |-> S6, again |-> simplify_again(P5.change, Len(S.trail), Len(S6.trail))])))))))

\* simplify() is entered at base level, after the core has propagated
BeginSimplify ==
    /\ pc = "engine" /\ m_scope_lvl = 0 /\ ~m_inconsistent /\ m_qhead = Len(m_trail)
    /\ pc' = "round"
    /\ ret' = 0
    /\ UNCHANGED <<solverVars, m_roots, m_coeffs, m_active_vars, m_bound, m_overflow,
                   m_mark, m_num_marks, debug_conflict, s_m_lemma, int_max,
                   m_lemma, m_conflict_lvl, m_num_cut>>

\* one round of the loop; ret counts the rounds
SimplifyRound ==
    /\ pc = "round" /\ ret < MaxRounds
    /\ \E R \in Outcomes(LAMBDA u : Bind(simplify_once(StUB(u)), LAMBDA r :
                                        [again |-> r.again] @@ r.S)) :
           /\ Install(R)
           /\ pc' = IF R.again THEN "round" ELSE "simplified"
    /\ ret' = ret + 1
    /\ UNCHANGED <<m_roots, m_coeffs, m_active_vars, m_bound, m_overflow,
                   m_mark, m_num_marks, debug_conflict, s_m_lemma, int_max,
                   m_lemma, m_conflict_lvl, m_num_cut>>

\* the core propagates before simplify() is called
PropagateBefore == pc = "engine" /\ Propagate

NextRounds == PropagateBefore \/ BeginSimplify \/ SimplifyRound

\* the clauses of the core when simplify() is called
RoundClauses == {{1, 2}, {0 - 2, 3}, {1, 0 - 2, 3}, {3, 4}}

\* two constraints and at most one clause, as added to a new solver
InitRounds == InitSubsume /\ m_clauses \subseteq RoundClauses

\* simplify() runs to its end once entered: each round is taken
SpecRounds == InitRounds /\ [][NextRounds]_vars /\ WF_vars(SimplifyRound)

\* C39: simplify() terminates: the do-while loop reaches a round with no
\* change and no growth of the trail after finitely many rounds
C39_SimplifyTerminates == (pc = "round") ~> (pc = "simplified")

\* simplify() has returned after more than two rounds
C39_Witness == pc = "simplified" /\ ret >= 3

\* the rounds simplify() takes stay below the cap of the model
RoundsBelowCap == pc = "round" => ret < MaxRounds - 1

----------------------------------------------------------------------------
(* uint64_ext::manager::mul_inverse of the fixed-width simplex, on words of *)
(* WordBits bits.                                                          *)

WordBits == 6

\* the number of values of a numeral
WordSize == 2 ^ WordBits

\* unsigned arithmetic wraps around
wrap(a) == ((a % WordSize) + WordSize) % WordSize

\* the locals of mul_inverse before the loop
mul_inverse_init(x) ==
    [x |-> x, t0 |-> 1, t1 |-> wrap(0 - 1), r0 |-> x, r1 |-> wrap(0 - x)]

\* a loop body that adds the product where mul_inverse subtracts it
mul_inverse_iter_added(st) ==
    Bind(st.r0 \div st.r1, LAMBDA q :
        [st EXCEPT !.t1 = wrap(st.t0 + q * st.t1), !.t0 = st.t1,
                   !.r1 = wrap(st.r0 - q * st.r1), !.r0 = st.r1])

\* the body of the while loop of mul_inverse
mul_inverse_iter(st) ==
    Bind(st.r0 \div st.r1, LAMBDA q :
        [st EXCEPT !.t1 = wrap(st.t0 - q * st.t1), !.t0 = st.t1,
                   !.r1 = wrap(st.r0 - q * st.r1), !.r0 = st.r1])

\* mul_inverse is about to be called with any numeral x
InitInverse ==
    /\ Install0(EmptySolver(NumVars))
    /\ m_roots = [l \in LitsOf(NumVars) |-> l]
    /\ m_coeffs = [v \in 1..NumVars |-> 0]
    /\ m_active_vars = <<>>
    /\ m_bound = 0
    /\ m_overflow = FALSE
    /\ m_mark = {}
    /\ m_num_marks = 0
    /\ debug_conflict = FALSE
    /\ s_m_lemma = <<>>
    /\ int_max = INT_MAX
    /\ m_lemma = <<>>
    /\ m_conflict_lvl = 0
    /\ m_num_cut = 0
    /\ pc = "mul_inverse"
    /\ ret \in {[x |-> x] : x \in 0..(WordSize - 1)}

inverseUnchanged ==
    UNCHANGED <<solverVars, m_roots, m_coeffs, m_active_vars, m_bound, m_overflow,
                m_mark, m_num_marks, debug_conflict, s_m_lemma, int_max,
                m_lemma, m_conflict_lvl, m_num_cut>>

\* the test for 0 and the initialisation of the locals
MulInverseEnter ==
    /\ pc = "mul_inverse"
    /\ IF ret.x = 0
       THEN pc' = "returned" /\ ret' = [x |-> 0, r |-> 0]
       ELSE pc' = "loop" /\ ret' = mul_inverse_init(ret.x)
    /\ inverseUnchanged

\* one iteration of the while loop
MulInverseLoop ==
    /\ pc = "loop" /\ ret.r1 # 0
    /\ ret' = mul_inverse_iter(ret)
    /\ UNCHANGED pc
    /\ inverseUnchanged

\* the loop is left and t0 is returned
MulInverseReturn ==
    /\ pc = "loop" /\ ret.r1 = 0
    /\ pc' = "returned"
    /\ ret' = [x |-> ret.x, r |-> ret.t0]
    /\ inverseUnchanged

NextInverse == MulInverseEnter \/ MulInverseLoop \/ MulInverseReturn

\* the call runs on: no step of it waits for anything
SpecInverse == InitInverse /\ [][NextInverse]_vars /\ WF_vars(NextInverse)

\* C40: mul_inverse returns the multiplicative inverse modulo the word size
\* for every odd x (x * mul_inverse(x) = 1 with wrap-around), returns 0 for
\* x = 0, and its loop terminates for every input
C40_MulInverse ==
    /\ <>(pc = "returned")
    /\ [](pc = "returned" =>
             /\ ret.x % 2 = 1 => wrap(ret.x * ret.r) = 1
             /\ ret.x = 0 => ret.r = 0)

\* the inverse of an odd x that is not its own inverse has been returned
C40_Witness ==
    /\ pc = "returned" /\ ret.x % 2 = 1
    /\ ret.r # ret.x /\ wrap(ret.x * ret.r) = 1
====
